---- MODULE Spec2Model ----
(***************************************************************************)
(* A model of hotdoc_gi_extension/gi_extension.py: the GIR node cache, the *)
(* class hierarchies, the name translation tables and the per-language     *)
(* formatting of GIExtension, and the GIR file walk of GIRParser.          *)
(*                                                                         *)
(* A Python string is modelled as the sequence of its tokens: a name, a    *)
(* C identifier or a C type is one token, and the separators the code      *)
(* writes ('.', ':') are tokens of their own, so that 'T:n', 'T::n' and    *)
(* 'T:::n' differ exactly as the strings do.  An absent XML attribute      *)
(* (attrib.get() returning None) is the empty sequence.                    *)
(***************************************************************************)
EXTENDS Integers, Sequences, FiniteSets, TLC

\* ------------------------------------------------------------------ bounds

\* Longest list of <include> elements of the root GIR file.
MaxIncludes == 2
\* Longest configured list of languages.
MaxLangs == 3
\* Iterations of the `while (True)` loop of __create_hierarchy that are
\* followed; a walk that gets this far is on a cycle of `parent` attributes.
MaxIter == 6
\* Most SECTION comments the wizard finds in the sources.
MaxComments == 2
\* Last line of a source file that a comment reaches.
MaxLine == 3
\* The most <parameter> elements a callable of the GIR files has.
MaxParams == 2
\* The most annotations the comment of a parameter has.
MaxAnnotations == 2

\* ----------------------------------------------------------------- strings
\* (the strings section comes first: the inputs below are written with it)

NoAttr == <<>>
None == <<>>

Str(s) == <<s>>

\* set(seq)
Range(seq) == {seq[i] : i \in DOMAIN seq}

\* '%s.%s' % (a, b)
Dotted(a, b) == a \o <<".">> \o b

\* '.' in s
HasDot(s) == \E i \in DOMAIN s : s[i] = "."

RECURSIVE JoinDots(_)
\* '.'.join(components)
JoinDots(components) ==
  IF components = <<>> THEN <<>>
  ELSE IF Len(components) = 1 THEN components[1]
  ELSE components[1] \o <<".">> \o JoinDots(Tail(components))

RECURSIVE Reverse(_)
\* list.reverse()
Reverse(s) == IF s = <<>> THEN <<>> ELSE Append(Reverse(Tail(s)), Head(s))

\* l.lower() on the language names a configuration may hold
Lower(l) ==
  CASE l = "C" -> "c"
    [] l = "Python" -> "python"
    [] OTHER -> l

\* str.upper() on the names the members of an enumeration have
Upper(name) ==
  [i \in DOMAIN name |-> CASE name[i] = "fill" -> "FILL" [] OTHER -> name[i]]

\* '%s::%s' % (name, name) of a C type given as one token
ClassKeyOf(t) == <<t, ":", ":", t>>

\* ------------------------------------------------------------ dictionaries

\* d[k] = v
Put(d, k, v) == [x \in DOMAIN d \cup {k} |-> IF x = k THEN v ELSE d[x]]

\* d.get(k)
Get(d, k) == IF k \in DOMAIN d THEN d[k] ELSE None

EmptyDict == [x \in {} |-> None]

\* ------------------------------------------------------------- GIR files

\* The GIR files of the model, by the name an <include> gives them.  "Atk"
\* is a file no search directory holds.
RootGir == "Gtk"
GirFiles == {"Gtk", "Gdk", "GObject"}
IncludeNames == {"Gdk", "GObject", "Atk"}

\* The elements of the three files in document order.  `up` is getparent()
\* (0 for a root), and `gir` is the file the element is read from.
Doc == <<
  [gir |-> "Gtk", tag |-> "repository", up |-> 0, name |-> NoAttr,
   cid |-> NoAttr, ctype |-> NoAttr, intro |-> NoAttr],
  [gir |-> "Gtk", tag |-> "namespace", up |-> 1, name |-> Str("Gtk"),
   cid |-> NoAttr, ctype |-> NoAttr, intro |-> NoAttr],
  [gir |-> "Gtk", tag |-> "class", up |-> 2, name |-> Str("Object"),
   cid |-> NoAttr, ctype |-> Str("GtkObject"), intro |-> NoAttr],
  [gir |-> "Gtk", tag |-> "class", up |-> 2, name |-> Str("Widget"),
   cid |-> NoAttr, ctype |-> Str("GtkWidget"), intro |-> NoAttr],
  [gir |-> "Gtk", tag |-> "method", up |-> 4, name |-> Str("show"),
   cid |-> Str("gtk_widget_show"), ctype |-> NoAttr, intro |-> NoAttr],
  [gir |-> "Gtk", tag |-> "virtual-method", up |-> 4, name |-> Str("show"),
   cid |-> NoAttr, ctype |-> NoAttr, intro |-> NoAttr],
  [gir |-> "Gtk", tag |-> "property", up |-> 4, name |-> Str("halign"),
   cid |-> NoAttr, ctype |-> NoAttr, intro |-> NoAttr],
  [gir |-> "Gtk", tag |-> "type", up |-> 7, name |-> Str("Align"),
   cid |-> NoAttr, ctype |-> Str("GtkAlign"), intro |-> NoAttr],
  [gir |-> "Gtk", tag |-> "glib:signal", up |-> 4, name |-> Str("show"),
   cid |-> NoAttr, ctype |-> NoAttr, intro |-> NoAttr],
  [gir |-> "Gtk", tag |-> "class", up |-> 2, name |-> Str("Button"),
   cid |-> NoAttr, ctype |-> Str("GtkButton"), intro |-> NoAttr],
  [gir |-> "Gtk", tag |-> "property", up |-> 10, name |-> Str("clicked"),
   cid |-> NoAttr, ctype |-> NoAttr, intro |-> NoAttr],
  [gir |-> "Gtk", tag |-> "glib:signal", up |-> 10, name |-> Str("clicked"),
   cid |-> NoAttr, ctype |-> NoAttr, intro |-> NoAttr],
  [gir |-> "Gtk", tag |-> "virtual-method", up |-> 10, name |-> Str("clicked"),
   cid |-> NoAttr, ctype |-> NoAttr, intro |-> NoAttr],
  [gir |-> "Gtk", tag |-> "interface", up |-> 2, name |-> Str("Buildable"),
   cid |-> NoAttr, ctype |-> Str("GtkBuildable"), intro |-> NoAttr],
  [gir |-> "Gtk", tag |-> "enumeration", up |-> 2, name |-> Str("Align"),
   cid |-> NoAttr, ctype |-> Str("GtkAlign"), intro |-> NoAttr],
  [gir |-> "Gtk", tag |-> "member", up |-> 15, name |-> Str("fill"),
   cid |-> Str("GTK_ALIGN_FILL"), ctype |-> NoAttr, intro |-> NoAttr],
  [gir |-> "Gtk", tag |-> "function", up |-> 2, name |-> Str("init_abi_check"),
   cid |-> Str("gtk_init_abi_check"), ctype |-> NoAttr, intro |-> Str("0")],
  [gir |-> "GObject", tag |-> "repository", up |-> 0, name |-> NoAttr,
   cid |-> NoAttr, ctype |-> NoAttr, intro |-> NoAttr],
  [gir |-> "GObject", tag |-> "namespace", up |-> 18, name |-> Str("GObject"),
   cid |-> NoAttr, ctype |-> NoAttr, intro |-> NoAttr],
  [gir |-> "GObject", tag |-> "class", up |-> 19, name |-> Str("Object"),
   cid |-> NoAttr, ctype |-> Str("GObject"), intro |-> NoAttr],
  [gir |-> "GObject", tag |-> "glib:signal", up |-> 20, name |-> Str("notify"),
   cid |-> NoAttr, ctype |-> NoAttr, intro |-> NoAttr],
  [gir |-> "GObject", tag |-> "class", up |-> 19,
   name |-> Str("InitiallyUnowned"),
   cid |-> NoAttr, ctype |-> Str("GInitiallyUnowned"), intro |-> NoAttr],
  [gir |-> "Gdk", tag |-> "repository", up |-> 0, name |-> NoAttr,
   cid |-> NoAttr, ctype |-> NoAttr, intro |-> NoAttr],
  [gir |-> "Gdk", tag |-> "namespace", up |-> 23, name |-> Str("Gdk"),
   cid |-> NoAttr, ctype |-> NoAttr, intro |-> NoAttr],
  [gir |-> "Gdk", tag |-> "class", up |-> 24, name |-> Str("Window"),
   cid |-> NoAttr, ctype |-> Str("GdkWindow"), intro |-> Str("0")],
  [gir |-> "Gdk", tag |-> "record", up |-> 24, name |-> Str("Rectangle"),
   cid |-> NoAttr, ctype |-> Str("GdkRectangle"), intro |-> NoAttr],
  [gir |-> "GObject", tag |-> "class", up |-> 19, name |-> Str("ParamSpec"),
   cid |-> NoAttr, ctype |-> Str("GParamSpec"), intro |-> NoAttr],
  [gir |-> "GObject", tag |-> "virtual-method", up |-> 27,
   name |-> Str("finalize"),
   cid |-> NoAttr, ctype |-> NoAttr, intro |-> NoAttr]
>>

NodeIds == DOMAIN Doc

\* The classes whose `parent` attribute the GIR files fix.
FixedParent(n) ==
  CASE n = 22 -> Str("Object")
    [] n = 25 -> Dotted(Str("GObject"), Str("Object"))
    [] OTHER -> NoAttr

\* The classes whose `parent` attribute is an input, with the values tried.
ParentChoices ==
  [c3 : {Dotted(Str("GObject"), Str("InitiallyUnowned")), Str("Button")},
   c4 : {Str("Object"), Dotted(Str("GObject"), Str("Object"))},
   c10 : {Str("Widget"), Dotted(Str("Gtk"), Str("Widget")), NoAttr}]

\* Sequences over S of length at most n.
SeqsUpTo(S, n) == UNION {[1..k -> S] : k \in 0..n}

\* The <include> elements of each file, in document order.
IncludeChoices ==
  [Gtk : SeqsUpTo(IncludeNames, MaxIncludes),
   Gdk : {<<>>, <<"GObject">>, <<"Gtk">>, <<"Atk", "GObject">>},
   GObject : {<<>>, <<"Gtk">>}]

\* A GIR input: the include lists and the variable parent attributes.
Worlds == [inc : IncludeChoices, par : ParentChoices]

\* The configured language lists (config.get('languages', [])).
LangNames == {"c", "C", "python", "javascript", "vala"}
LangConfigs == SeqsUpTo(LangNames, MaxLangs)

\* Inputs are taken from a cross of the two families instead of their
\* product: every GIR input with the default of config.get('languages', []),
\* and every language list with one GIR input.
CoreLangs == {<<>>}
CoreWorlds ==
  {[inc |-> [Gtk |-> <<"Gdk", "GObject">>, Gdk |-> <<"GObject">>,
             GObject |-> <<>>],
    par |-> [c3 |-> Dotted(Str("GObject"), Str("InitiallyUnowned")),
             c4 |-> Str("Object"), c10 |-> Str("Widget")]]}

\* ---------------------------------------------------------------- pages

\* What the host hands to the extension's handlers while it formats a page:
\* a symbol to format, a link whose ref or title is resolved, a page link
\* to rename.  `name` is the symbol's unique_name, the link's id_ or the
\* page link's original name.
Symbol(kind, name) ==
  [op |-> "symbol", kind |-> kind, name |-> name, ref |-> None, title |-> None]
LinkRef(id, ref) ==
  [op |-> "link_ref", kind |-> "Link", name |-> id, ref |-> ref, title |-> None]
LinkTitle(id, title) ==
  [op |-> "link_title", kind |-> "Link", name |-> id, ref |-> None,
   title |-> title]
PageLink(name) ==
  [op |-> "page_link", kind |-> "str", name |-> name, ref |-> None,
   title |-> None]

WidgetShow == Str("gtk_widget_show")
AbiCheck == Str("gtk_init_abi_check")
WidgetShowSignal == <<"GtkWidget", ":", ":", "show">>

\* The page the host formats.
Page == <<
  PageLink(WidgetShow),
  LinkTitle(WidgetShow, Str("gtk_widget_show")),
  PageLink(WidgetShow),
  Symbol("FunctionSymbol", AbiCheck),
  LinkTitle(AbiCheck, Str("gtk_init_abi_check")),
  LinkRef(AbiCheck, Str("gtk.html#gtk_init_abi_check")),
  LinkRef(WidgetShow, None),
  Symbol("ParameterSymbol", Str("widget")),
  Symbol("StructSymbol", Str("GtkWidget")),
  LinkTitle(Str("GtkWidget"), Str("GtkWidget")),
  Symbol("SignalSymbol", WidgetShowSignal),
  Symbol("AliasSymbol", Str("gboolean")),
  Symbol("AliasSymbol", Str("gpointer")),
  LinkRef(Str("gtk_private"), Str("gtk.html#gtk_private")),
  Symbol("FunctionSymbol", Str("gtk_private")),
  Symbol("ReturnItemSymbol", Str("gtk_private")),
  Symbol("EnumSymbol", Str("GTK_ALIGN_FILL")),
  PageLink(Str("GTK_ALIGN_FILL")),
  Symbol("ClassSymbol", ClassKeyOf("GdkWindow")),
  Symbol("FunctionSymbol", WidgetShow),
  Symbol("StructSymbol", Str("GParamSpec")) >>

\* The items of the page that are symbols, in the order of the page.
SymbolItems ==
  SelectSeq([i \in 1..Len(Page) |-> i], LAMBDA i : Page[i].op = "symbol")

\* What the extension writes of a symbol: is_method, throws, whether return
\* value and parameters carry the attributes of 'gi-extension', and whether
\* extension_contents has the key 'Annotations'.
NoSymbolState == [is_method |-> FALSE, throws |-> FALSE, gi |-> FALSE,
                  annotations |-> FALSE]

\* 'throws' in node.attrib
ThrowsAttr(n) == n = 17

\* The glib:type-name attribute: classes and interfaces carry it. It is the
\* name the type is registered under, which for most is the C type;
\* GObject-2.0.gir has c:type="GParamSpec" glib:type-name="GParam".
TypeNameAttr(n) ==
  IF Doc[n].tag \notin {"class", "interface"} THEN NoAttr
  ELSE IF Doc[n].ctype = Str("GParamSpec") THEN Str("GParam")
  ELSE Doc[n].ctype

\* The methods of the extension a host may call besides setup() and
\* format_page().
HostCalls == {"setup_language", "resolving_symbol"}

\* The configured languages such a host is modelled with.
HostLangs == {<<>>, <<"python">>, <<"c", "javascript">>}

\* page.extension_name of the pages the host resolves
ExtensionNames == {"gi-extension", "c-extension"}

\* The arguments setup_language is called with.
SetupArgs == {None} \cup {Str(l) : l \in {"c", "python", "javascript", "vala"}}

VARIABLES
  gir,              \* the GIR files on disk (an input, never written)
  config_languages, \* config['languages'] (an input, never written)
  host_calls,       \* what the host calls besides setup() and format_page()
  pc,               \* where the program is
  languages,        \* self.languages
  language,         \* self.language
  parsed_girs,      \* self.__parsed_girs
  parse_log,        \* the files etree.parse() was called on, in order
  skipped,          \* the includes reported "Couldn't find a gir for"
  stack,            \* the live calls of __cache_nodes, innermost last
  node_cache,       \* self.__node_cache
  class_nodes,      \* self.__class_nodes
  gir_hierarchies,  \* self.__gir_hierarchies
  gir_children_map, \* self.__gir_children_map
  todo,             \* keys of __class_nodes still to be iterated, in order
  walk,             \* the locals of the running __create_hierarchy
  parser,           \* the GIRParser that setup() builds
  c_names,          \* self.__c_names
  python_names,     \* self.__python_names
  javascript_names, \* self.__javascript_names
  translated_names, \* self.__translated_names: the dictionary it refers to
  connected,        \* how often each handler is connected to its signal
  fundamentals,     \* the language the formatter's fundamentals are set for
  fmt,              \* the locals of the running format_page
  rendered,         \* the languages BaseExtension.format_page was called for
  last,             \* what the last call the host made returned
  symbols,          \* the symbols of the page: what the extension writes
  resolve,          \* the page whose symbols the host is resolving
  wizard,           \* the quick start of GIWizard
  job               \* one call of a symbol-building method: input and result

cacheVars == <<parsed_girs, parse_log, skipped, stack, node_cache, class_nodes>>
hierVars == <<gir_hierarchies, gir_children_map, todo, walk>>
langVars == <<languages, language>>
inputVars == <<gir, config_languages, host_calls>>
nameVars == <<c_names, python_names, javascript_names>>
setupVars == <<translated_names, connected>>
fmtVars == <<fundamentals, fmt, rendered, last>>
lateVars == <<parser, nameVars, setupVars, fmtVars>>
pageVars == <<symbols, resolve>>
idleVars == <<inputVars, wizard, pageVars, job>>
extensionVars == <<inputVars, pc, langVars, cacheVars, hierVars, lateVars,
                   pageVars, job>>
hostVars == <<inputVars, pc, langVars, cacheVars, hierVars, lateVars,
              pageVars, wizard>>

vars == <<inputVars, pc, langVars, cacheVars, hierVars, lateVars, pageVars,
          wizard, job>>

\* ------------------------------------------------------------ XML access

\* node.attrib.get('parent')
ParentAttr(n) ==
  CASE n = 3 -> gir.par.c3
    [] n = 4 -> gir.par.c4
    [] n = 10 -> gir.par.c10
    [] OTHER -> FixedParent(n)

\* The descendants of the root element of a file, in document order.
Descendants(file) ==
  SelectSeq([i \in 1..Len(Doc) |-> i],
            LAMBDA i : Doc[i].gir = file /\ Doc[i].up # 0)

\* gir_root.findall('./core:include'): name-version.gir of each, in order
Includes(file) ==
  CASE file = "Gtk" -> gir.inc.Gtk
    [] file = "Gdk" -> gir.inc.Gdk
    [] file = "GObject" -> gir.inc.GObject
    [] OTHER -> <<>>

\* ---------------------------------------------------------------- lookup

\* __find_gir_file: the path of the file in a search directory, or None
FindGirFile(gir_name) ==
  IF gir_name \in GirFiles THEN Str(gir_name) ELSE None

RECURSIVE GetGiNameComponents(_)
\* __get_gi_name_components
GetGiNameComponents(n) ==
  LET up == Doc[n].up IN
    IF up = 0 \/ Doc[up].name = NoAttr THEN <<Doc[n].name>>
    ELSE GetGiNameComponents(up) \o <<Doc[n].name>>

\* The key formats of __cache_nodes.
ClassKey(name) == name \o <<":", ":">> \o name
PropertyKey(n) == Doc[Doc[n].up].ctype \o <<":">> \o Doc[n].name
\* line 811 writing the format of line 818
SignalKeyAsVMethod(n) == Doc[Doc[n].up].ctype \o <<":", ":", ":">> \o Doc[n].name
SignalKey(n) == Doc[Doc[n].up].ctype \o <<":", ":">> \o Doc[n].name
VMethodKey(n) == Doc[Doc[n].up].ctype \o <<":", ":", ":">> \o Doc[n].name

\* './/*[not(self::core:type) and not (self::core:array)][@c:type]'
HasCType(n) ==
  Doc[n].ctype # NoAttr /\ Doc[n].tag \notin {"type", "array"}

RECURSIVE CacheIdentifiers(_, _)
\* lines 784-787
CacheIdentifiers(cache, ns) ==
  IF ns = <<>> THEN cache
  ELSE LET n == Head(ns) IN
    CacheIdentifiers(
      IF Doc[n].cid # NoAttr THEN Put(cache, Doc[n].cid, n) ELSE cache,
      Tail(ns))

RECURSIVE CacheTypes(_, _)
\* lines 791-799, the node cache
CacheTypes(cache, ns) ==
  IF ns = <<>> THEN cache
  ELSE LET n == Head(ns)
           c1 == Put(cache, Doc[n].ctype, n)
           c2 == IF Doc[n].tag = "class"
                 THEN Put(c1, ClassKey(Doc[n].ctype), n) ELSE c1
       IN CacheTypes(IF HasCType(n) THEN c2 ELSE cache, Tail(ns))

RECURSIVE CacheClassNodes(_, _)
\* lines 791-798, the class nodes
CacheClassNodes(classes, ns) ==
  IF ns = <<>> THEN classes
  ELSE LET n == Head(ns) IN
    CacheClassNodes(
      IF HasCType(n) /\ Doc[n].tag = "class"
      THEN Put(classes, JoinDots(GetGiNameComponents(n)), n) ELSE classes,
      Tail(ns))

RECURSIVE CacheMembers(_, _)
\* lines 801-820
CacheMembers(cache, ns) ==
  IF ns = <<>> THEN cache
  ELSE LET n == Head(ns) IN
    CacheMembers(
      CASE Doc[n].tag = "property" -> Put(cache, PropertyKey(n), n)
        [] Doc[n].tag = "glib:signal" -> Put(cache, SignalKey(n), n)
        [] Doc[n].tag = "virtual-method" -> Put(cache, VMethodKey(n), n)
        [] OTHER -> cache,
      Tail(ns))

\* The three member loops run one after the other; a key of one loop is
\* written after every key of the loops before it.
MembersOf(file, tag) ==
  SelectSeq(Descendants(file), LAMBDA n : Doc[n].tag = tag)

\* lines 783-820: the node cache after the five loops over one file
CacheFile(cache, file) ==
  LET c1 == CacheIdentifiers(cache, Descendants(file))
      c2 == CacheTypes(c1, Descendants(file))
      c3 == CacheMembers(c2, MembersOf(file, "property"))
      c4 == CacheMembers(c3, MembersOf(file, "glib:signal"))
  IN CacheMembers(c4, MembersOf(file, "virtual-method"))

\* ------------------------------------------------------------------- Init

NoParser == [parsed_files |-> <<>>, namespace |-> None,
             identifier_prefix |-> None, stack |-> <<>>,
             gir_types |-> EmptyDict, gir_hierarchies |-> EmptyDict,
             python_names |-> EmptyDict, javascript_names |-> EmptyDict]

\* The three handlers setup_language connects and disconnects.
Handlers == {"translate_link_ref", "translate_link_title", "rename_page_link"}

NoFormat == [page |-> <<>>, lang |-> 0, item |-> 0]
NoCall == [op |-> "none", index |-> 0, item |-> 0, language |-> None,
           accepted |-> FALSE, value |-> None]

NoResolve == [extension_name |-> None, item |-> 0]
NoWizard == [pc |-> "none"]
NoJob == [op |-> "none"]
NoWalk == [on |-> FALSE, gi_name |-> None, klaass |-> 0, klass |-> 0,
           hierarchy |-> <<>>, iters |-> 0]

\* No extension is constructed yet.
ExtensionInit ==
  /\ pc = "new"
  /\ languages = <<>>
  /\ language = None
  /\ parsed_girs = {}
  /\ parse_log = <<>>
  /\ skipped = <<>>
  /\ stack = <<>>
  /\ node_cache = EmptyDict
  /\ class_nodes = EmptyDict
  /\ gir_hierarchies = EmptyDict
  /\ gir_children_map = EmptyDict
  /\ todo = <<>>
  /\ walk = NoWalk
  /\ parser = NoParser
  /\ c_names = EmptyDict
  /\ python_names = EmptyDict
  /\ javascript_names = EmptyDict
  /\ translated_names = "own"
  /\ connected = [h \in Handlers |-> 0]
  /\ fundamentals = None
  /\ fmt = NoFormat
  /\ rendered = <<>>
  /\ last = NoCall
  /\ symbols = [i \in Range(SymbolItems) |-> NoSymbolState]
  /\ resolve = NoResolve

Init ==
  /\ gir \in Worlds
  /\ config_languages \in LangConfigs
  /\ host_calls \in SUBSET HostCalls
  /\ gir \in CoreWorlds \/ config_languages \in CoreLangs
  /\ host_calls = {} \/ (gir \in CoreWorlds /\ config_languages \in HostLangs)
  /\ ExtensionInit
  /\ wizard = NoWizard
  /\ job = NoJob

\* -------------------------------------------------- GIExtension.__init__

\* lines 708-736: up to the call of __cache_nodes on the root
InitBegin ==
  /\ pc = "new"
  /\ languages' = [i \in DOMAIN config_languages |-> Lower(config_languages[i])]
  /\ language' = Str("c")
  /\ parsed_girs' = {}
  /\ parse_log' = <<RootGir>>
  /\ node_cache' = EmptyDict
  /\ class_nodes' = EmptyDict
  /\ stack' = <<[file |-> RootGir, indexed |-> FALSE, inc |-> 1]>>
  /\ pc' = "caching"
  /\ UNCHANGED <<lateVars, idleVars, skipped, hierVars>>

Top == stack[Len(stack)]
SetTop(f) == [stack EXCEPT ![Len(stack)] = f]

\* lines 783-820: the five loops of __cache_nodes over one file
CacheNodesIndex ==
  /\ pc = "caching" /\ stack # <<>> /\ ~Top.indexed
  /\ node_cache' = CacheFile(node_cache, Top.file)
  /\ class_nodes' = CacheClassNodes(class_nodes, Descendants(Top.file))
  /\ stack' = SetTop([Top EXCEPT !.indexed = TRUE])
  /\ UNCHANGED <<lateVars, idleVars, pc, langVars, parsed_girs, parse_log, skipped,
                 hierVars>>

HasInclude ==
  /\ pc = "caching" /\ stack # <<>> /\ Top.indexed
  /\ Top.inc <= Len(Includes(Top.file))

NextInclude == Includes(Top.file)[Top.inc]

\* line 830 leaving the loop (`break`) instead of going on (`continue`)
IncludeMissingBreak ==
  /\ HasInclude
  /\ FindGirFile(NextInclude) = None
  /\ skipped' = Append(skipped, NextInclude)
  /\ stack' = SetTop([Top EXCEPT !.inc = Len(Includes(Top.file)) + 1])
  /\ UNCHANGED <<lateVars, idleVars, pc, langVars, parsed_girs, parse_log,
                 node_cache, class_nodes, hierVars>>

\* lines 826-830: an include no search directory holds
IncludeMissing ==
  /\ HasInclude
  /\ FindGirFile(NextInclude) = None
  /\ skipped' = Append(skipped, NextInclude)
  /\ stack' = SetTop([Top EXCEPT !.inc = @ + 1])
  /\ UNCHANGED <<lateVars, idleVars, pc, langVars, parsed_girs, parse_log, node_cache,
                 class_nodes, hierVars>>

\* lines 832-833: an include already parsed
IncludeParsed ==
  /\ HasInclude
  /\ FindGirFile(NextInclude) # None
  /\ FindGirFile(NextInclude) \in parsed_girs
  /\ stack' = SetTop([Top EXCEPT !.inc = @ + 1])
  /\ UNCHANGED <<lateVars, idleVars, pc, langVars, parsed_girs, parse_log, skipped,
                 node_cache, class_nodes, hierVars>>

\* lines 835-837: parse the include and recurse into it
IncludeRecurse ==
  /\ HasInclude
  /\ FindGirFile(NextInclude) # None
  /\ FindGirFile(NextInclude) \notin parsed_girs
  /\ parsed_girs' = parsed_girs \cup {FindGirFile(NextInclude)}
  /\ parse_log' = Append(parse_log, NextInclude)
  /\ stack' = Append(SetTop([Top EXCEPT !.inc = @ + 1]),
                     [file |-> NextInclude, indexed |-> FALSE, inc |-> 1])
  /\ UNCHANGED <<lateVars, idleVars, pc, langVars, skipped, node_cache, class_nodes,
                 hierVars>>

\* The keys of a dictionary of nodes in the order of their nodes.
KeysByNode(d) ==
  LET ids == SelectSeq([i \in 1..Len(Doc) |-> i],
                       LAMBDA i : \E k \in DOMAIN d : d[k] = i)
  IN [i \in DOMAIN ids |-> CHOOSE k \in DOMAIN d : d[k] = ids[i]]

\* iteritems(): the order is the dictionary's own; the model follows two,
\* one the reverse of the other
IterationOrders(d) == {KeysByNode(d), Reverse(KeysByNode(d))}

\* __cache_nodes returns; the outermost return goes on with lines 737-739
CacheNodesReturn ==
  /\ pc = "caching" /\ stack # <<>> /\ Top.indexed
  /\ Top.inc > Len(Includes(Top.file))
  /\ stack' = SubSeq(stack, 1, Len(stack) - 1)
  /\ IF Len(stack) = 1
     THEN /\ pc' = "hierarchies"
          /\ gir_hierarchies' = EmptyDict
          /\ gir_children_map' = EmptyDict
          /\ todo' \in IterationOrders(class_nodes)
     ELSE UNCHANGED <<pc, gir_hierarchies, gir_children_map, todo>>
  /\ UNCHANGED <<lateVars, idleVars, langVars, parsed_girs, parse_log, skipped,
                 node_cache, class_nodes, walk>>

\* ------------------------------------------------- __create_hierarchies

\* __get_klass_name; glib:type-name is not modelled apart from c:type,
\* every class of the model carrying a c:type
GetKlassName(n) == Doc[n].ctype

\* line 859 reading the namespace of the class the walk began with
WalkParentNameOfFirst(klaass, klass) ==
  LET parent_name == ParentAttr(klass) IN
    IF HasDot(parent_name) THEN parent_name
    ELSE Dotted(Doc[Doc[klaass].up].name, parent_name)

\* lines 854-860: the name __create_hierarchy looks the parent up under,
\* from the class the walk stands on
WalkParentName(klaass, klass) ==
  LET parent_name == ParentAttr(klass) IN
    IF HasDot(parent_name) THEN parent_name
    ELSE Dotted(Doc[Doc[klass].up].name, parent_name)

\* line 877 left out: the direct parent comes first
WalkResultUnreversed(hierarchy) == hierarchy

\* line 877: the list __create_hierarchy returns
WalkResult(hierarchy) == Reverse(hierarchy)

\* lines 840-841 and 851-852: the next key of __class_nodes, in the order
\* the dictionary yields them
CreateHierarchyCall ==
  /\ pc = "hierarchies" /\ ~walk.on
  /\ todo # <<>>
  /\ walk' = [on |-> TRUE, gi_name |-> Head(todo),
              klaass |-> class_nodes[Head(todo)],
              klass |-> class_nodes[Head(todo)],
              hierarchy |-> <<>>, iters |-> 0]
  /\ UNCHANGED <<lateVars, idleVars, pc, langVars, cacheVars, gir_hierarchies,
                 gir_children_map, todo>>

\* line 863 naming the class the walk began with
ChildOfFirst(klaass, klass) == klaass

\* line 863: the class entered among the children of its parent
ChildOf(klaass, klass) == klass

\* lines 854-875: one iteration of the loop that finds the parent
CreateHierarchyIter ==
  /\ pc = "hierarchies" /\ walk.on
  /\ ParentAttr(walk.klass) # None
  /\ walk.iters < MaxIter
  /\ LET parent_name == WalkParentName(walk.klaass, walk.klass)
         klass_name == GetKlassName(ChildOf(walk.klaass, walk.klass))
     IN /\ parent_name \in DOMAIN class_nodes
        /\ LET parent_class == class_nodes[parent_name]
               children == IF parent_name \in DOMAIN gir_children_map
                           THEN gir_children_map[parent_name] ELSE EmptyDict
           IN /\ gir_children_map' =
                   Put(gir_children_map, parent_name,
                       IF klass_name \in DOMAIN children THEN children
                       ELSE Put(children, klass_name, klass_name))
              /\ walk' = [walk EXCEPT
                   !.hierarchy = Append(@, GetKlassName(parent_class)),
                   !.klass = parent_class,
                   !.iters = @ + 1]
  /\ UNCHANGED <<lateVars, idleVars, pc, langVars, cacheVars, gir_hierarchies, todo>>

\* line 861: the parent is no key of __class_nodes, and KeyError leaves
\* __init__
CreateHierarchyKeyError ==
  /\ pc = "hierarchies" /\ walk.on
  /\ ParentAttr(walk.klass) # None
  /\ WalkParentName(walk.klaass, walk.klass) \notin DOMAIN class_nodes
  /\ pc' = "raised"
  /\ UNCHANGED <<lateVars, idleVars, langVars, cacheVars, hierVars>>

\* lines 855-856, 877-878 and 842: the loop ends and the hierarchy is stored
CreateHierarchyReturn ==
  /\ pc = "hierarchies" /\ walk.on
  /\ ParentAttr(walk.klass) = None
  /\ gir_hierarchies' =
       Put(gir_hierarchies, walk.gi_name, WalkResult(walk.hierarchy))
  /\ todo' = Tail(todo)
  /\ walk' = [walk EXCEPT !.on = FALSE]
  /\ UNCHANGED <<lateVars, idleVars, pc, langVars, cacheVars, gir_children_map>>

\* lines 747-749 left out
CFirstLeftOut(langs) == langs

\* lines 715 and 747-749: C goes first
CFirst(langs) ==
  IF \E i \in DOMAIN langs : langs[i] = "c"
  THEN LET first == CHOOSE i \in DOMAIN langs :
                      /\ langs[i] = "c"
                      /\ \A j \in 1..(i - 1) : langs[j] # "c"
       IN <<"c">> \o SubSeq(langs, 1, first - 1)
                 \o SubSeq(langs, first + 1, Len(langs))
  ELSE langs

\* lines 740-770: the rest of __init__
InitEnd ==
  /\ pc = "hierarchies" /\ ~walk.on /\ todo = <<>>
  /\ c_names' = EmptyDict
  /\ python_names' = EmptyDict
  /\ javascript_names' = EmptyDict
  /\ languages' = CFirst(languages)
  /\ translated_names' = "own"
  /\ pc' = "constructed"
  /\ UNCHANGED <<idleVars, language, cacheVars, hierVars, parser, connected,
                 fmtVars>>

\* ------------------------------------------------------------- GIRParser

\* The children of the root element in document order: the <include>
\* elements, then the <namespace>.
ParserChildren(file) == Len(Includes(file)) + 1

\* The <namespace> element of a file.
NamespaceOf(file) ==
  CHOOSE n \in NodeIds : Doc[n].gir = file /\ Doc[n].tag = "namespace"

RECURSIVE ParseNamespaceChildren(_, _, _)
\* __parse_namespace, lines 274-293, with the gir_types entries of
\* __parse_gir_record (297-298) and __parse_gir_enum (401-402)
ParseNamespaceChildren(types, ns, children) ==
  IF children = <<>> THEN types
  ELSE LET n == Head(children) IN
    ParseNamespaceChildren(
      IF Doc[n].tag \in {"class", "interface", "record", "enumeration"}
      THEN Put(types, Dotted(Doc[ns].name, Doc[n].name), n) ELSE types,
      ns, Tail(children))

ParseNamespace(types, ns) ==
  ParseNamespaceChildren(types, ns,
    SelectSeq([i \in 1..Len(Doc) |-> i], LAMBDA i : Doc[i].up = ns))

\* What __parse_namespace and the methods it calls (lines 274-413) register
\* in python_names and javascript_names for one element: for a class or
\* interface under 'CType::CType' and under its C type, for a record,
\* callback, constant or enumeration under its C type, for a function of
\* the namespace or of a class under its C identifier, for a signal or
\* virtual method under 'CType:::name---signal' or '---vfunc', and for a
\* member of an enumeration under its C identifier.
ParserEntries(n) ==
  LET up == Doc[n].up
      tag == Doc[n].tag
      Entry(key, python, javascript) ==
        <<[key |-> key, python |-> python, javascript |-> javascript]>>
      Function(class_name) ==
        Entry(Doc[n].cid, Dotted(class_name, Doc[n].name),
              class_name \o <<".", "prototype", ".">> \o Doc[n].name)
      Callable(what) ==
        Entry(Doc[up].ctype \o <<":", ":", ":">> \o Doc[n].name
                \o <<"---", what>>, Doc[n].name, Doc[n].name)
  IN IF up = 0 \/ Doc[up].up = 0 THEN <<>>
     ELSE IF Doc[up].tag = "namespace"
     THEN LET name == Dotted(Doc[up].name, Doc[n].name) IN
          CASE tag \in {"class", "interface"} /\ Doc[n].ctype # NoAttr ->
                 Entry(ClassKey(Doc[n].ctype), name, name)
                 \o Entry(Doc[n].ctype, name, name)
            [] tag \in {"record", "callback", "constant", "enumeration",
                        "bitfield"} /\ Doc[n].ctype # NoAttr ->
                 Entry(Doc[n].ctype, name, name)
            [] tag = "function" -> Function(Doc[up].name)
            [] OTHER -> <<>>
     ELSE IF Doc[Doc[up].up].tag # "namespace" THEN <<>>
     ELSE LET name == Dotted(Doc[Doc[up].up].name, Doc[up].name) IN
          CASE /\ Doc[up].tag \in {"class", "interface", "record"}
               /\ Doc[up].ctype # NoAttr
               /\ tag \in {"method", "function", "constructor"} ->
                 Function(name)
            [] /\ Doc[up].tag \in {"class", "interface", "record"}
               /\ Doc[up].ctype # NoAttr
               /\ tag = "glib:signal" -> Callable("signal")
            [] /\ Doc[up].tag \in {"class", "interface", "record"}
               /\ Doc[up].ctype # NoAttr
               /\ tag = "virtual-method" -> Callable("vfunc")
            [] Doc[up].tag \in {"enumeration", "bitfield"} /\ tag = "member" ->
                 Entry(Doc[n].cid, Dotted(name, Upper(Doc[n].name)),
                       Dotted(name, Upper(Doc[n].name)))
            [] OTHER -> <<>>

\* The names registered for each element, computed once.
ParserEntryTable == [n \in 1..Len(Doc) |-> ParserEntries(n)]

\* The names __parse_namespace assigns to the keys of the elements `ns` of
\* a file, `entries` being the entries of every element: they are assigned
\* in document order, so the last entry with a key gives the key its name.
ParserNamesOf(entries, ns, lang) ==
  LET pairs == {p \in (DOMAIN ns) \X {1, 2} : p[2] <= Len(entries[ns[p[1]]])}
      KeyOf(p) == entries[ns[p[1]]][p[2]].key
  IN [k \in {KeyOf(p) : p \in pairs} |->
        LET final == CHOOSE p \in pairs :
                      /\ KeyOf(p) = k
                      /\ \A q \in pairs :
                           KeyOf(q) = k =>
                             \/ q[1] < p[1]
                             \/ q[1] = p[1] /\ q[2] <= p[2]
        IN entries[ns[final[1]]][final[2]][lang]]

\* The names of every file, computed once.
ParserNameTable ==
  [lang \in {"python", "javascript"} |->
     [file \in GirFiles |->
        ParserNamesOf(ParserEntryTable, Descendants(file), lang)]]

\* gir_types of a parser that parsed one file only, for every file.
GirTypesTable ==
  [file \in GirFiles |-> ParseNamespace(EmptyDict, NamespaceOf(file))]

\* A dictionary of the parser after __parse_namespace made the assignments
\* names[k] = assigned[k] for the <namespace> of a file.
ParseNamespaceAssigned(names, assigned) ==
  [k \in DOMAIN names \cup DOMAIN assigned |->
     IF k \in DOMAIN assigned THEN assigned[k] ELSE names[k]]

\* The c:identifier-prefixes attribute of the <namespace> of a file.
IdentifierPrefixes(file) ==
  CASE file = "Gtk" -> Str("Gtk")
    [] file = "Gdk" -> Str("Gdk")
    [] file = "GObject" -> Str("G")

\* lines 260-261 without the test of line 258
ParserNamespaceOfLastFile(namespace, file) == Doc[NamespaceOf(file)].name

\* lines 258-260: self.namespace after `file` was parsed
ParserNamespaceAfter(namespace, file) ==
  IF namespace = None THEN Doc[NamespaceOf(file)].name ELSE namespace

\* lines 258-261: self.identifier_prefix after `file` was parsed
ParserPrefixAfter(namespace, prefix, file) ==
  IF namespace = None THEN IdentifierPrefixes(file) ELSE prefix

PTop == parser.stack[Len(parser.stack)]
PAdvance == [parser.stack EXCEPT ![Len(parser.stack)].child = @ + 1]

\* setup(), lines 1518-1523, GIRParser.__init__, lines 157-177, and the
\* first call of __parse_gir_file, lines 250-263
Setup ==
  /\ pc = "constructed"
  /\ parser' = [parsed_files |-> <<Str(RootGir)>>,
                namespace |-> ParserNamespaceAfter(None, RootGir),
                identifier_prefix |-> ParserPrefixAfter(None, None, RootGir),
                stack |-> <<[file |-> RootGir, child |-> 1]>>,
                gir_types |-> EmptyDict, gir_hierarchies |-> EmptyDict,
                python_names |-> EmptyDict, javascript_names |-> EmptyDict]
  /\ pc' = "parsing"
  /\ UNCHANGED <<idleVars, langVars, cacheVars, hierVars, nameVars,
                 setupVars, fmtVars>>

ParserAtInclude ==
  /\ pc = "parsing" /\ parser.stack # <<>>
  /\ PTop.child <= Len(Includes(PTop.file))

ParserInclude == Includes(PTop.file)[PTop.child]

\* In(x, list): x in list
In(x, list) == \E i \in DOMAIN list : list[i] = x

\* lines 267-272 and 250-255 for an include no search directory holds:
\* __find_gir_file returns None, None is not among the parsed files, and
\* etree.parse(None) raises
ParserIncludeMissing ==
  /\ ParserAtInclude
  /\ FindGirFile(ParserInclude) = None
  /\ ~In(None, parser.parsed_files)
  /\ parser' = [parser EXCEPT !.parsed_files = Append(@, None)]
  /\ pc' = "raised"
  /\ UNCHANGED <<idleVars, langVars, cacheVars, hierVars, nameVars,
                 setupVars, fmtVars>>

\* lines 267-272 and 250-251: the include is among the parsed files
ParserIncludeParsed ==
  /\ ParserAtInclude
  /\ FindGirFile(ParserInclude) # None
  /\ In(FindGirFile(ParserInclude), parser.parsed_files)
  /\ parser' = [parser EXCEPT !.stack = PAdvance]
  /\ UNCHANGED <<idleVars, pc, langVars, cacheVars, hierVars, nameVars,
                 setupVars, fmtVars>>

\* lines 267-272 and 250-263: the include is parsed
ParserIncludeRecurse ==
  /\ ParserAtInclude
  /\ FindGirFile(ParserInclude) # None
  /\ ~In(FindGirFile(ParserInclude), parser.parsed_files)
  /\ parser' = [parser EXCEPT
       !.parsed_files = Append(@, FindGirFile(ParserInclude)),
       !.namespace = ParserNamespaceAfter(@, ParserInclude),
       !.identifier_prefix =
          ParserPrefixAfter(parser.namespace, @, ParserInclude),
       !.stack = Append(PAdvance, [file |-> ParserInclude, child |-> 1])]
  /\ UNCHANGED <<idleVars, pc, langVars, cacheVars, hierVars, nameVars,
                 setupVars, fmtVars>>

\* lines 265-266: the <namespace> child
ParserNamespace ==
  /\ pc = "parsing" /\ parser.stack # <<>>
  /\ PTop.child = ParserChildren(PTop.file)
  /\ parser' = [parser EXCEPT
       !.gir_types = ParseNamespaceAssigned(@, GirTypesTable[PTop.file]),
       !.python_names =
          ParseNamespaceAssigned(@, ParserNameTable["python"][PTop.file]),
       !.javascript_names =
          ParseNamespaceAssigned(@, ParserNameTable["javascript"][PTop.file]),
       !.stack = PAdvance]
  /\ UNCHANGED <<idleVars, pc, langVars, cacheVars, hierVars, nameVars,
                 setupVars, fmtVars>>

\* __parse_gir_file returns
ParserReturn ==
  /\ pc = "parsing" /\ parser.stack # <<>>
  /\ PTop.child > ParserChildren(PTop.file)
  /\ parser' = [parser EXCEPT
       !.stack = SubSeq(@, 1, Len(@) - 1)]
  /\ UNCHANGED <<idleVars, pc, langVars, cacheVars, hierVars, nameVars,
                 setupVars, fmtVars>>

\* lines 213-219 of GIRParser.__create_hierarchy
ParserParentName(klass) ==
  LET parent_name == ParentAttr(klass) IN
    IF HasDot(parent_name) THEN parent_name
    ELSE Dotted(Doc[Doc[klass].up].name, parent_name)

RECURSIVE ParserCreateHierarchy(_, _, _)
\* GIRParser.__create_hierarchy, lines 209-237: the loop from `klass` on
ParserCreateHierarchy(types, klass, hierarchy) ==
  IF ParentAttr(klass) = None THEN Reverse(hierarchy)
  ELSE CHOOSE result \in
         {ParserCreateHierarchy(types, parent_class,
                                Append(hierarchy, GetKlassName(parent_class))) :
            parent_class \in {types[ParserParentName(klass)]}} : TRUE

\* line 178, lines 180-183, and the rest of setup(), lines 1524-1527.  The
\* parent chains were walked by GIExtension.__init__ before, over the same
\* files: line 220 finds every parent.
ParserCreateHierarchies ==
  /\ pc = "parsing" /\ parser.stack = <<>>
  /\ parser' = [parser EXCEPT !.gir_hierarchies =
       [gi_name \in DOMAIN parser.gir_types |->
          ParserCreateHierarchy(parser.gir_types, parser.gir_types[gi_name],
                                <<>>)]]
  /\ pc' = "ready"
  /\ UNCHANGED <<idleVars, langVars, cacheVars, hierVars, nameVars,
                 setupVars, fmtVars>>

\* --------------------------------------------------------- translations

\* line 1389 writing the name of line 1385: 'prototype.' for types too
AddTranslationsPrototypeForTypes(names, unique_name, node) ==
  LET components == GetGiNameComponents(node)
      gi_name == JoinDots(components)
      js == [components EXCEPT ![Len(components)] = <<"prototype", ".">> \o @]
  IN IF Doc[node].cid # NoAttr \/ Doc[node].ctype # NoAttr
     THEN [python |-> Put(names.python, unique_name, gi_name),
           javascript |-> Put(names.javascript, unique_name, JoinDots(js)),
           c |-> Put(names.c, unique_name, unique_name)]
     ELSE names

\* __add_translations, lines 1375-1392: the three tables afterwards
AddTranslations(names, unique_name, node) ==
  LET components == GetGiNameComponents(node)
      gi_name == JoinDots(components)
      last_ == Len(components)
      js == [components EXCEPT ![last_] = <<"prototype", ".">> \o @]
  IN IF Doc[node].cid # NoAttr
     THEN [python |-> Put(names.python, unique_name, gi_name),
           javascript |-> Put(names.javascript, unique_name, JoinDots(js)),
           c |-> Put(names.c, unique_name, unique_name)]
     ELSE IF Doc[node].ctype # NoAttr
     THEN [python |-> Put(names.python, unique_name, gi_name),
           javascript |-> Put(names.javascript, unique_name, gi_name),
           c |-> Put(names.c, unique_name, unique_name)]
     ELSE names

Names == [c |-> c_names, python |-> python_names,
          javascript |-> javascript_names]

SetNames(names) ==
  /\ c_names' = names.c
  /\ python_names' = names.python
  /\ javascript_names' = names.javascript

\* formatter.fundamentals for the language set_fundamentals() was given
FundamentalsOf(l) ==
  CASE l = Str("c") -> {Str("gboolean"), Str("gpointer")}
    [] l = Str("python") -> {Str("gboolean")}
    [] l = Str("javascript") -> {Str("gboolean")}
    [] OTHER -> {}

\* __is_introspectable, lines 1044-1058: what it returns
IsIntrospectable(name) ==
  IF name \in FundamentalsOf(fundamentals) THEN TRUE
  ELSE IF name \notin DOMAIN node_cache THEN FALSE
  ELSE Doc[node_cache[name]].intro # Str("0")

\* __is_introspectable, lines 1044-1058: the three tables afterwards
IntrospectNames(name) ==
  IF name \in FundamentalsOf(fundamentals) THEN Names
  ELSE IF name \notin DOMAIN node_cache THEN Names
  ELSE IF name \notin DOMAIN c_names
  THEN AddTranslations(Names, name, node_cache[name])
  ELSE Names

\* ------------------------------------------------------- setup_language

\* line 1117 referring to the dictionary of line 1119
TableForPythonAsJavascript(l) ==
  CASE l = Str("c") -> "c"
    [] l = Str("python") -> "javascript"
    [] l = Str("javascript") -> "javascript"
    [] OTHER -> "own"

\* lines 1114-1121: the dictionary __translated_names refers to.  "own" is
\* the new dictionary of line 1121, which nothing else refers to.
TableFor(l) ==
  CASE l = Str("c") -> "c"
    [] l = Str("python") -> "python"
    [] l = Str("javascript") -> "javascript"
    [] OTHER -> "own"

\* self.__translated_names, given the three tables
Translated(names) ==
  CASE translated_names = "c" -> names.c
    [] translated_names = "python" -> names.python
    [] translated_names = "javascript" -> names.javascript
    [] OTHER -> EmptyDict

\* lines 1092-1106 left out: no handler is disconnected
SetupConnectedNoDisconnect(l) ==
  [h \in Handlers |-> connected[h] + (IF l # None THEN 1 ELSE 0)]

\* lines 1092-1106 run for a language only
SetupConnectedKeptOnNone(l) ==
  [h \in Handlers |->
     IF l = None THEN connected[h]
     ELSE (IF connected[h] > 0 THEN connected[h] - 1 ELSE 0) + 1]

\* lines 1092-1112: disconnect() raises KeyError for a handler that is not
\* connected, which is caught
SetupConnected(l) ==
  [h \in Handlers |->
     (IF connected[h] > 0 THEN connected[h] - 1 ELSE 0)
     + (IF l # None THEN 1 ELSE 0)]

\* setup_language, lines 1089-1121
SetupLanguage(l) ==
  /\ language' = l
  /\ connected' = SetupConnected(l)
  /\ translated_names' = TableFor(l)

\* setup_language called by the host, lines 1089-1121
SetupLanguageCall ==
  /\ pc = "ready" /\ "setup_language" \in host_calls
  /\ \E l \in SetupArgs :
       /\ SetupLanguage(l)
       /\ last' = [NoCall EXCEPT !.op = "setup_language", !.language = l]
  /\ UNCHANGED <<idleVars, pc, languages, cacheVars, hierVars, parser,
                 nameVars, fundamentals, fmt, rendered>>

\* ---------------------------------------------------- __resolving_symbol

\* isinstance(symbol, FunctionSymbol): the host's classes of signals,
\* virtual functions and callbacks derive from FunctionSymbol
IsFunctionSymbol(kind) ==
  kind \in {"FunctionSymbol", "SignalSymbol", "VFunctionSymbol",
            "CallbackSymbol"}

\* The symbol a member of a class gets in __update_struct: lines 1258-1260,
\* 1290-1291 and 1322-1323
MemberSymbol(kind, separator, node, klass_name) ==
  [kind |-> kind, unique_name |-> klass_name \o separator \o Doc[node].name]

\* node.findall('./tag')
ChildrenOf(node, tag) ==
  SelectSeq([i \in 1..Len(Doc) |-> i],
            LAMBDA i : Doc[i].up = node /\ Doc[i].tag = tag)

\* __update_struct, lines 1422-1483: the symbols it returns
UpdateStruct(unique_name, node) ==
  LET klass_name == TypeNameAttr(node)
      Members(kind, separator, tag) ==
        [i \in DOMAIN ChildrenOf(node, tag) |->
           MemberSymbol(kind, separator, ChildrenOf(node, tag)[i], klass_name)]
  IN (IF Doc[node].tag = "class"
      THEN <<[kind |-> "ClassSymbol", unique_name |-> ClassKey(unique_name)]>>
      ELSE <<>>)
     \o Members("SignalSymbol", <<":", ":">>, "glib:signal")
     \o Members("PropertySymbol", <<":">>, "property")
     \o Members("VFunctionSymbol", <<":", ":", ":">>, "virtual-method")

\* line 1501 for a page of any extension
ResolvesAnyPage(extension_name) == TRUE

\* line 1501: the page is a page of this extension
Resolves(extension_name) == extension_name = "gi-extension"

\* __update_symbol, lines 1485-1498, with __update_function, lines
\* 1394-1420: the list returned, the symbol and the three tables afterwards
UpdateSymbol(kind, unique_name, symbol, names) ==
  IF unique_name \notin DOMAIN node_cache
  THEN [res |-> <<>>, symbol |-> symbol, names |-> names]
  ELSE LET node == node_cache[unique_name] IN
    IF IsFunctionSymbol(kind)
    THEN [res |-> <<>>,
          symbol |-> [symbol EXCEPT
            !.is_method = Doc[node].tag \in {"method", "virtual-method"},
            !.throws = IF ThrowsAttr(node) THEN TRUE ELSE @,
            !.gi = TRUE],
          names |-> AddTranslations(names, unique_name, node)]
    ELSE IF kind = "StructSymbol"
    THEN [res |-> UpdateStruct(unique_name, node), symbol |-> symbol,
          names |-> AddTranslations(names, unique_name, node)]
    ELSE [res |-> <<>>, symbol |-> symbol, names |-> names]

\* the host begins to resolve the symbols of a page
ResolvePageCall ==
  /\ pc = "ready" /\ "resolving_symbol" \in host_calls
  /\ \E e \in ExtensionNames : resolve' = [extension_name |-> e, item |-> 1]
  /\ pc' = "resolving"
  /\ UNCHANGED <<inputVars, wizard, job, symbols, langVars, cacheVars, hierVars,
                 lateVars>>

\* __resolving_symbol, lines 1500-1504, for the next symbol of the page
ResolvingSymbol ==
  /\ pc = "resolving" /\ resolve.item <= Len(SymbolItems)
  /\ LET i == SymbolItems[resolve.item]
         r == IF Resolves(resolve.extension_name)
              THEN UpdateSymbol(Page[i].kind, Page[i].name, symbols[i], Names)
              ELSE [res |-> <<>>, symbol |-> symbols[i], names |-> Names]
     IN /\ symbols' = [symbols EXCEPT ![i] = r.symbol]
        /\ SetNames(r.names)
        /\ last' = [op |-> "resolving_symbol", index |-> i, item |-> Page[i],
                    language |-> language, accepted |-> TRUE,
                    value |-> r.res]
  /\ resolve' = [resolve EXCEPT !.item = @ + 1]
  /\ UNCHANGED <<inputVars, wizard, job, pc, langVars, cacheVars, hierVars, parser,
                 setupVars, fundamentals, fmt, rendered>>

\* every symbol of the page is resolved
ResolvePageReturn ==
  /\ pc = "resolving" /\ resolve.item > Len(SymbolItems)
  /\ resolve' = NoResolve
  /\ pc' = "ready"
  /\ UNCHANGED <<inputVars, wizard, job, symbols, langVars, cacheVars, hierVars,
                 lateVars>>

\* ----------------------------------------------------------- format_page

\* isinstance(symbol, QualifiedSymbol): ParameterSymbol and ReturnItemSymbol
\* are the host's subclasses of QualifiedSymbol
IsQualifiedSymbol(kind) ==
  kind \in {"QualifiedSymbol", "ParameterSymbol", "ReturnItemSymbol"}

\* line 1530
FormatPageCall ==
  /\ pc = "ready"
  /\ fmt' = [page |-> Page, lang |-> 1, item |-> 0]
  /\ rendered' = <<>>
  /\ pc' = "formatting"
  /\ UNCHANGED <<idleVars, langVars, cacheVars, hierVars, parser, nameVars,
                 setupVars, fundamentals, last>>

\* lines 1531-1538: the next language, up to the call of the base class
FormatPageLanguage ==
  /\ pc = "formatting" /\ fmt.item = 0
  /\ fmt.lang <= Len(languages)
  /\ fundamentals' = Str(languages[fmt.lang])
  /\ SetupLanguage(Str(languages[fmt.lang]))
  /\ rendered' = Append(rendered, languages[fmt.lang])
  /\ fmt' = [fmt EXCEPT !.item = 1]
  /\ UNCHANGED <<idleVars, pc, languages, cacheVars, hierVars, parser,
                 nameVars, last>>

AtItem(op) ==
  /\ pc = "formatting" /\ fmt.item \in 1..Len(fmt.page)
  /\ fmt.page[fmt.item].op = op

Item == fmt.page[fmt.item]

Returned(accepted, value) ==
  last' = [op |-> Item.op, index |-> fmt.item, item |-> Item,
           language |-> language,
           accepted |-> accepted, value |-> value]

\* lines 1064-1065 left out
FormattingSymbolResultUnqualified(kind, name) ==
  IF language # Str("c") THEN IsIntrospectable(name) ELSE TRUE

\* __formatting_symbol, lines 1060-1072: what it returns
FormattingSymbolResult(kind, name) ==
  IF IsQualifiedSymbol(kind) THEN TRUE
  ELSE IF language # Str("c") THEN IsIntrospectable(name)
  ELSE TRUE

\* lines 1041-1042 left out: the entry of another pass is kept
AddAnnotationsKept(l, annotations) ==
  IF l = Str("c") THEN TRUE ELSE annotations

\* __add_annotations, lines 1034-1042: whether extension_contents has the
\* key 'Annotations' afterwards
AddAnnotations(l, annotations) ==
  IF l = Str("c") THEN TRUE ELSE FALSE

\* __formatting_symbol, lines 1060-1072
FormattingSymbol ==
  /\ AtItem("symbol")
  /\ symbols' =
       IF Item.kind \in {"ReturnItemSymbol", "ParameterSymbol"}
       THEN [symbols EXCEPT ![fmt.item].annotations =
               AddAnnotations(language, @)]
       ELSE symbols
  /\ Returned(FormattingSymbolResult(Item.kind, Item.name), None)
  /\ SetNames(IF ~IsQualifiedSymbol(Item.kind) /\ language # Str("c")
              THEN IntrospectNames(Item.name) ELSE Names)
  /\ fmt' = [fmt EXCEPT !.item = @ + 1]
  /\ UNCHANGED <<inputVars, wizard, job, resolve, pc, langVars, cacheVars, hierVars,
                 parser,
                 setupVars, fundamentals, rendered>>

\* line 1078 without its test of the language
TranslateLinkRefResultAnyLanguage(ref, name) ==
  IF ref = None THEN None
  ELSE IF ~IsIntrospectable(name) THEN <<"../c/">> \o ref
  ELSE None

\* __translate_link_ref, lines 1074-1081: what it returns
TranslateLinkRefResult(ref, name) ==
  IF ref = None THEN None
  ELSE IF language # Str("c") /\ ~IsIntrospectable(name)
  THEN <<"../c/">> \o ref
  ELSE None

\* __translate_link_ref, lines 1074-1081
TranslateLinkRef ==
  /\ AtItem("link_ref")
  /\ connected["translate_link_ref"] > 0
  /\ Returned(TRUE, TranslateLinkRefResult(Item.ref, Item.name))
  /\ SetNames(IF Item.ref # None /\ language # Str("c")
              THEN IntrospectNames(Item.name) ELSE Names)
  /\ fmt' = [fmt EXCEPT !.item = @ + 1]
  /\ UNCHANGED <<idleVars, pc, langVars, cacheVars, hierVars, parser,
                 setupVars, fundamentals, rendered>>

\* line 1087 reading the table as it was before line 1084 ran
TitleTableBefore(names) == Translated(Names)

\* line 1087: the table read, `names` being the tables line 1084 left
TitleTable(names) == Translated(names)

\* __translate_link_title, lines 1083-1087
TranslateLinkTitle ==
  /\ AtItem("link_title")
  /\ connected["translate_link_title"] > 0
  /\ LET names == IF language # Str("c")
                  THEN IntrospectNames(Item.name) ELSE Names
     IN /\ SetNames(names)
        /\ Returned(TRUE,
             IF language # Str("c") /\ ~IsIntrospectable(Item.name)
             THEN Item.title \o <<" (not introspectable)">>
             ELSE Get(TitleTable(names), Item.name))
  /\ fmt' = [fmt EXCEPT !.item = @ + 1]
  /\ UNCHANGED <<idleVars, pc, langVars, cacheVars, hierVars, parser,
                 setupVars, fundamentals, rendered>>

\* __rename_page_link, lines 1506-1507
RenamePageLink ==
  /\ AtItem("page_link")
  /\ connected["rename_page_link"] > 0
  /\ Returned(TRUE, Get(Translated(Names), Item.name))
  /\ fmt' = [fmt EXCEPT !.item = @ + 1]
  /\ UNCHANGED <<idleVars, pc, langVars, cacheVars, hierVars, parser,
                 nameVars, setupVars, fundamentals, rendered>>

\* line 1538 returns: the page is formatted for this language
FormatPageNext ==
  /\ pc = "formatting" /\ fmt.item > Len(fmt.page)
  /\ fmt' = [fmt EXCEPT !.lang = @ + 1, !.item = 0]
  /\ UNCHANGED <<idleVars, pc, langVars, cacheVars, hierVars, parser,
                 nameVars, setupVars, fundamentals, rendered, last>>

\* lines 1540-1541
FormatPageReturn ==
  /\ pc = "formatting" /\ fmt.item = 0
  /\ fmt.lang > Len(languages)
  /\ SetupLanguage(None)
  /\ fundamentals' = Str("c")
  /\ fmt' = NoFormat
  /\ last' = [NoCall EXCEPT !.op = "format_page"]
  /\ pc' = "ready"
  /\ UNCHANGED <<idleVars, languages, cacheVars, hierVars, parser, nameVars,
                 rendered>>

Next ==
  \/ InitBegin
  \/ CacheNodesIndex
  \/ IncludeMissing
  \/ IncludeParsed
  \/ IncludeRecurse
  \/ CacheNodesReturn
  \/ CreateHierarchyCall
  \/ CreateHierarchyIter
  \/ CreateHierarchyKeyError
  \/ CreateHierarchyReturn
  \/ InitEnd
  \/ Setup
  \/ ParserIncludeMissing
  \/ ParserIncludeParsed
  \/ ParserIncludeRecurse
  \/ ParserNamespace
  \/ ParserReturn
  \/ ParserCreateHierarchies
  \/ SetupLanguageCall
  \/ ResolvePageCall
  \/ ResolvingSymbol
  \/ ResolvePageReturn
  \/ FormatPageCall
  \/ FormatPageLanguage
  \/ FormattingSymbol
  \/ TranslateLinkRef
  \/ TranslateLinkTitle
  \/ RenamePageLink
  \/ FormatPageNext
  \/ FormatPageReturn

Spec == Init /\ [][Next]_vars

\* -------------------------------------------------------------- GIWizard

\* The source files the SECTION comments are in.
SourceFiles == {"a.c", "b.c"}

\* A comment as get_section_comments leaves it: raw_comment is '' for a
\* section comment, which goes to a markdown page, and the renamed text
\* for a class comment.
Comments ==
  {c \in [filename : SourceFiles, lineno : 1..MaxLine, endlineno : 1..MaxLine,
          raw_comment : {"", "/** GtkWidget::GtkWidget: */"}] :
     c.lineno <= c.endlineno}

\* class_comments + section_comments.values(), lines 637-638: comments of one
\* file do not overlap
CommentLists ==
  {l \in SeqsUpTo(Comments, MaxComments) :
     \A i, j \in DOMAIN l :
       (i # j /\ l[i].filename = l[j].filename) =>
         (l[i].endlineno < l[j].lineno \/ l[j].endlineno < l[i].lineno)}

\* do_quick_start is called: config['gi_index'] is not set
WizardStart(comments) ==
  [pc |-> "group_prompt", comments |-> comments, res |-> FALSE,
   gi_index |-> None, tmp_sections |-> FALSE, patched |-> <<>>, i |-> 0,
   added |-> <<>>, committed |-> FALSE, skip |-> FALSE, returned |-> None]

WizardInit ==
  /\ gir \in CoreWorlds
  /\ config_languages \in CoreLangs
  /\ host_calls = {}
  /\ ExtensionInit
  /\ wizard \in {WizardStart(l) : l \in CommentLists}
  /\ job = NoJob

\* line 694 after Skip returning False
QuickStartResultFalse(res, skip) == IF skip THEN Str("False") ELSE res

\* line 694: what do_quick_start returns
QuickStartResult(res, skip) == res

\* lines 676-677: the group prompt is declined
WizardGroupDeclined ==
  /\ wizard.pc = "group_prompt"
  /\ wizard' = [wizard EXCEPT !.pc = "done", !.returned = Str("False")]
  /\ UNCHANGED extensionVars

\* lines 676-679: the quick start of the base class, with either result
WizardBaseQuickStart ==
  /\ wizard.pc = "group_prompt"
  /\ \E res \in {Str("True"), Str("False")} :
       wizard' = [wizard EXCEPT !.pc = "propose_choice", !.res = res]
  /\ UNCHANGED extensionVars

\* lines 683-687, 691-694: propose_choice raises Skip
WizardChoiceSkip ==
  /\ wizard.pc = "propose_choice"
  /\ wizard' = [wizard EXCEPT
       !.pc = "done", !.skip = TRUE,
       !.returned = QuickStartResult(wizard.res, TRUE)]
  /\ UNCHANGED extensionVars

\* lines 683-690 and 616-629: choice 0, and port_from_gtk_doc up to the
\* section comments; translate_section_file writes hotdoc-tmp-sections.txt
WizardPort ==
  /\ wizard.pc = "propose_choice"
  /\ wizard' = [wizard EXCEPT !.pc = "ask_confirmation", !.tmp_sections = TRUE]
  /\ UNCHANGED extensionVars

\* lines 631-635, 691-694: permission is not granted, Skip is raised
WizardDeclined ==
  /\ wizard.pc = "ask_confirmation"
  /\ wizard' = [wizard EXCEPT
       !.pc = "done", !.skip = TRUE,
       !.returned = QuickStartResult(wizard.res, TRUE)]
  /\ UNCHANGED extensionVars

\* lines 631-637 and 581-583: permission is granted
WizardGranted ==
  /\ wizard.pc = "ask_confirmation"
  /\ wizard' = [wizard EXCEPT
       !.pc = IF wizard.comments = <<>> THEN "finalize" ELSE "patch",
       !.i = 1]
  /\ UNCHANGED extensionVars

\* lines 588-594 taking the lines of the comment for the lines removed
RenumberedByLines(comments, comment) ==
  [k \in DOMAIN comments |->
     IF /\ comments[k].filename = comment.filename
        /\ comments[k].lineno > comment.endlineno
     THEN [comments[k] EXCEPT
             !.lineno = @ - (comment.endlineno - comment.lineno + 1),
             !.endlineno = @ - (comment.endlineno - comment.lineno + 1)]
     ELSE comments[k]]

\* lines 588-594: the line numbers of the other comments after `comment`,
\* whose text is empty, was patched
Renumbered(comments, comment) ==
  [k \in DOMAIN comments |->
     IF /\ comments[k].filename = comment.filename
        /\ comments[k].lineno > comment.endlineno
     THEN [comments[k] EXCEPT
             !.lineno = @ - (comment.endlineno - comment.lineno),
             !.endlineno = @ - (comment.endlineno - comment.lineno)]
     ELSE comments[k]]

\* lines 585-594: one comment is patched
WizardPatchComment ==
  /\ wizard.pc = "patch" /\ wizard.i <= Len(wizard.comments)
  /\ LET comment == wizard.comments[wizard.i] IN
       wizard' = [wizard EXCEPT
         !.patched = Append(@, [filename |-> comment.filename,
                                begin |-> comment.lineno - 1,
                                end |-> comment.endlineno,
                                new_comment |-> comment.raw_comment]),
         !.comments = IF comment.raw_comment = ""
                      THEN Renumbered(@, comment) ELSE @,
         !.i = @ + 1]
  /\ UNCHANGED extensionVars

\* lines 596-601: there is no git interface, or no repository, or the
\* commit is declined
WizardNoCommit ==
  /\ wizard.pc = "patch" /\ wizard.i > Len(wizard.comments)
  /\ wizard' = [wizard EXCEPT !.pc = "finalize"]
  /\ UNCHANGED extensionVars

\* lines 599-607: the patched files are added and committed
WizardCommit ==
  /\ wizard.pc = "patch" /\ wizard.i > Len(wizard.comments)
  /\ wizard' = [wizard EXCEPT
       !.pc = "finalize",
       !.added = [k \in DOMAIN wizard.comments |-> wizard.comments[k].filename],
       !.committed = TRUE]
  /\ UNCHANGED extensionVars

\* lines 639-651 and 690-694: the markdown pages are written, the
\* temporary file is removed, and the index is stored
WizardFinalize ==
  /\ wizard.pc = "finalize"
  /\ wizard' = [wizard EXCEPT
       !.pc = "done", !.tmp_sections = FALSE,
       !.gi_index = Str("gobject-api.markdown"),
       !.returned = QuickStartResult(wizard.res, FALSE)]
  /\ UNCHANGED extensionVars

WizardNext ==
  \/ WizardGroupDeclined
  \/ WizardBaseQuickStart
  \/ WizardChoiceSkip
  \/ WizardPort
  \/ WizardDeclined
  \/ WizardGranted
  \/ WizardPatchComment
  \/ WizardNoCommit
  \/ WizardCommit
  \/ WizardFinalize

WizardSpec == WizardInit /\ [][WizardNext]_vars

\* ------------------------------------------------ symbols of GIR nodes

\* The names of the parameters, by position.
ArgNames == <<"a", "b", "c", "d", "e">>

\* gi_parameter.attrib.get('direction')
Directions == {NoAttr, Str("in"), Str("out"), Str("inout")}

\* The `name` attribute of the <type> of a parameter or return value.
TypeNames == {Str("gint"), Str("Widget")}
ReturnTypes == {Str("none"), Str("gboolean"), Str("Widget")}

\* The <parameter> elements of a <parameters> element, in document order.
GiParameterLists ==
  {[i \in DOMAIN d |-> [name |-> Str(ArgNames[i]),
                        direction |-> d[i].direction, type |-> d[i].type]] :
     d \in SeqsUpTo([direction : Directions, type : TypeNames], MaxParams)}

\* The <instance-parameter> elements a <parameters> element may have.
InstanceParameters ==
  {[name |-> Str("self"), direction |-> d, type |-> Str("Widget")] :
     d \in {NoAttr, Str("out")}}

\* The GIR nodes of callables: a method has an instance parameter, a
\* function has none, and a node may have no <parameters> element.
Callables ==
  {n \in [tag : {"function", "method", "virtual-method"}, throws : BOOLEAN,
          has_parameters : BOOLEAN,
          instance : {<<>>} \cup {<<p>> : p \in InstanceParameters},
          parameters : GiParameterLists, return_type : ReturnTypes] :
     /\ n.tag = "function" => n.instance = <<>>
     /\ n.tag = "method" => n.instance # <<>>
     /\ ~n.has_parameters => (n.instance = <<>> /\ n.parameters = <<>>)}

\* The parameters the C extension found in the header, before the update.
CParameters(count) ==
  [i \in 1..count |->
     [argname |-> Str(ArgNames[i]), gi_name |-> None, direction |-> None]]

\* The keys of gir_types after GIRParser parsed the root file.
RootGirTypes == DOMAIN GirTypesTable[RootGir]

\* __type_tokens_and_gi_name_from_gi_node, lines 1168-1171: the gi_name,
\* with the types and the namespace of the GIRParser of the root file
GiName(ptype_name) ==
  LET namespaced == Dotted(Doc[NamespaceOf(RootGir)].name, ptype_name)
  IN IF namespaced \in RootGirTypes THEN namespaced ELSE ptype_name

\* line 1187-1188 without the default
DirectionOfAttr(direction) == direction

\* lines 1186-1188: a parameter without direction is an 'in' parameter
DirectionOf(direction) ==
  IF direction = NoAttr THEN Str("in") ELSE direction

\* __create_parameter_symbol, lines 1173-1191
CreateParameterSymbol(gi_parameter) ==
  [argname |-> gi_parameter.name, gi_name |-> GiName(gi_parameter.type),
   direction |-> DirectionOf(gi_parameter.direction)]

\* __create_return_value_symbol, lines 1193-1214
CreateReturnValueSymbol(return_type, out_parameters) ==
  <<IF GiName(return_type) = Str("none") THEN None
    ELSE [kind |-> "ReturnItemSymbol", name |-> None]>>
  \o [i \in DOMAIN out_parameters |->
        [kind |-> "ReturnItemSymbol", name |-> out_parameters[i].argname]]

\* __create_parameters_and_retval, lines 1216-1246
CreateParametersAndRetval(node) ==
  LET gi_parameters ==
        [i \in DOMAIN node.parameters |->
           CreateParameterSymbol(node.parameters[i])]
      instance ==
        [i \in DOMAIN node.instance |->
           CreateParameterSymbol(node.instance[i])]
      out_parameters ==
        SelectSeq(gi_parameters, LAMBDA param : param.direction # Str("in"))
  IN [parameters |-> instance \o gi_parameters,
      retval |-> CreateReturnValueSymbol(node.return_type, out_parameters)]

\* lines 1253-1254 without the test of is_method
SkippedAsInstanceAlways(is_method, i) == i = 1

\* lines 1253-1254: the first parameter of a method is passed over
SkippedAsInstance(is_method, i) == is_method /\ i = 1

\* __sort_parameters, lines 1248-1264: the list stored as 'parameters'
SortParameters(is_method, parameters) ==
  LET kept == SelectSeq([i \in DOMAIN parameters |-> i],
                LAMBDA i : /\ ~SkippedAsInstance(is_method, i)
                           /\ parameters[i].direction
                                \in {Str("in"), Str("inout")})
  IN [k \in DOMAIN kept |-> parameters[kept[k]]]

\* line 1407 keeping the error parameter
MatchedParametersAll(func_parameters, throws) == func_parameters

\* lines 1404-1407: the C parameters that are matched
MatchedParameters(func_parameters, throws) ==
  IF throws /\ func_parameters # <<>>
  THEN SubSeq(func_parameters, 1, Len(func_parameters) - 1)
  ELSE func_parameters

\* __update_function, lines 1394-1420: the function as it is left, and
\* whether gi_params[i] raised IndexError
UpdateFunction(func, node) ==
  LET made == CreateParametersAndRetval(node)
      gi_params == made.parameters
      func_parameters == MatchedParameters(func.parameters, node.throws)
      raised == Len(func_parameters) > Len(gi_params)
      Updated(i) ==
        IF i <= Len(func_parameters) /\ i <= Len(gi_params)
        THEN [func.parameters[i] EXCEPT
                !.gi_name = gi_params[i].gi_name,
                !.direction = gi_params[i].direction]
        ELSE func.parameters[i]
      parameters == [i \in DOMAIN func.parameters |-> Updated(i)]
      is_method == node.tag \in {"method", "virtual-method"}
  IN [raised |-> raised,
      func |-> [is_method |-> is_method,
                throws |-> func.throws \/ node.throws,
                return_value |-> made.retval,
                parameters |-> parameters,
                gi_parameters |->
                  IF raised THEN func.gi_parameters
                  ELSE SortParameters(is_method,
                         SubSeq(parameters, 1, Len(func_parameters)))]]

\* __create_vfunc_symbol, lines 1329-1341
CreateVFuncSymbol(node) ==
  LET made == CreateParametersAndRetval(node)
  IN [is_method |-> FALSE, throws |-> FALSE,
      return_value |-> made.retval, parameters |-> made.parameters,
      gi_parameters |-> SortParameters(FALSE, made.parameters)]

\* node.attrib.get() of writable, construct and construct-only
FlagValues == {NoAttr, Str("0"), Str("1")}

\* lines 1315-1318 with `if` for `elif`
PropertyFlagsBoth(writable, construct, construct_only) ==
  <<"ReadableFlag">>
  \o (IF writable = Str("1") THEN <<"WritableFlag">> ELSE <<>>)
  \o (IF construct_only = Str("1") THEN <<"ConstructOnlyFlag">> ELSE <<>>)
  \o (IF construct = Str("1") THEN <<"ConstructFlag">> ELSE <<>>)

\* __create_property_symbol, lines 1307-1318: the flags
PropertyFlags(writable, construct, construct_only) ==
  <<"ReadableFlag">>
  \o (IF writable = Str("1") THEN <<"WritableFlag">> ELSE <<>>)
  \o (IF construct_only = Str("1") THEN <<"ConstructOnlyFlag">>
      ELSE IF construct = Str("1") THEN <<"ConstructFlag">> ELSE <<>>)

\* The argument of an annotation of a comment (val.argument): None, a
\* list or a dict.
Arguments ==
  {[type |-> "NoneType", items |-> <<>>], [type |-> "list", items |-> <<>>],
   [type |-> "list", items |-> <<"full">>],
   [type |-> "list", items |-> <<"async">>],
   [type |-> "dict", items |-> <<<<"length", "n">>>>]}

\* The names of the annotations of a comment.
AnnotationNames ==
  {"transfer", "type", "element-type", "array", "scope", "default", "skip",
   "attributes"}

\* parameter.comment.annotations in the order iteritems() yields it.
AnnotationDicts(n) ==
  {d \in SeqsUpTo([name : AnnotationNames, argument : Arguments], n) :
     \A i, j \in DOMAIN d : d[i].name = d[j].name => i = j}

\* value[0]: whether it raises TypeError, IndexError or KeyError
NoFirst(value) == value.type # "list" \/ value.items = <<>>

\* __create_annotation, lines 1008-1012, with the factories of lines
\* 937-1006: the Annotation made, None, or an exception
CreateAnnotation(annotation_name, value) ==
  LET Made(nick, arg) == [made |-> "Annotation", nick |-> nick, arg |-> arg]
      Nothing == [made |-> "None"]
      Raises == [made |-> "raised"]
      first == value.items[1]
  IN CASE annotation_name = "type" ->
            IF value.items = <<>> THEN Nothing
            ELSE IF NoFirst(value) THEN Raises ELSE Made("type", first)
       [] annotation_name = "transfer" ->
            IF NoFirst(value) THEN Raises
            ELSE IF first \in {"none", "full", "floating", "container"}
            THEN Made("transfer: " \o first, "") ELSE Nothing
       [] annotation_name = "element-type" ->
            IF value.type # "list" THEN Made("element-type", "None")
            ELSE IF NoFirst(value) THEN Raises
            ELSE Made("element-type", first)
       [] annotation_name = "array" ->
            IF value.type = "dict" THEN Made("array", "name=val")
            ELSE Made("array", "None")
       [] annotation_name = "scope" ->
            IF NoFirst(value) THEN Nothing
            ELSE IF first \in {"async", "call", "notified"}
            THEN Made("scope " \o first, "") ELSE Nothing
       [] annotation_name = "default" ->
            IF NoFirst(value) THEN Raises ELSE Made("default " \o first, "")
       [] OTHER -> Nothing

RECURSIVE MakeAnnotationsLoop(_, _)
\* lines 1023-1030: the loop, with the annotations made so far
MakeAnnotationsLoop(items, annotations) ==
  IF items = <<>> THEN [raised |-> FALSE, annotations |-> annotations]
  ELSE IF Head(items).name = "skip"
  THEN MakeAnnotationsLoop(Tail(items), annotations)
  ELSE LET annotation == CreateAnnotation(Head(items).name,
                                          Head(items).argument)
       IN IF annotation.made = "raised"
          THEN [raised |-> TRUE, annotations |-> annotations]
          ELSE MakeAnnotationsLoop(Tail(items),
                 IF annotation.made = "None" THEN annotations
                 ELSE Append(annotations, annotation))

\* __make_annotations, lines 1014-1032
MakeAnnotations(annotations) == MakeAnnotationsLoop(annotations, <<>>)

\* A call of __update_function for a FunctionSymbol the C extension made
\* with `count` parameters.
UpdateFunctionJob(node, count) ==
  [op |-> "update_function", done |-> FALSE, raised |-> FALSE, node |-> node,
   count |-> count,
   func |-> [is_method |-> FALSE, throws |-> FALSE, return_value |-> None,
             parameters |-> CParameters(count), gi_parameters |-> None]]

\* A call of __create_vfunc_symbol.
CreateVFuncSymbolJob(node) ==
  [op |-> "create_vfunc_symbol", done |-> FALSE, node |-> node,
   symbol |-> None]

\* A call of __create_property_symbol for a <property> with these
\* attributes.
CreatePropertySymbolJob(writable, construct, construct_only) ==
  [op |-> "create_property_symbol", done |-> FALSE, writable |-> writable,
   construct |-> construct, construct_only |-> construct_only,
   flags |-> <<>>]

\* A call of __make_annotations for a parameter with these annotations.
MakeAnnotationsJob(comment_annotations) ==
  [op |-> "make_annotations", done |-> FALSE, raised |-> FALSE,
   comment_annotations |-> comment_annotations, annotations |-> <<>>]

\* One call of a symbol-building method, with its arguments.
SymbolInit ==
  /\ gir \in CoreWorlds
  /\ config_languages \in CoreLangs
  /\ host_calls = {}
  /\ ExtensionInit
  /\ wizard = NoWizard
  /\ \/ \E node \in Callables, count \in 0..(MaxParams + 2) :
          /\ node.tag # "virtual-method"
          /\ job = UpdateFunctionJob(node, count)
     \/ \E node \in Callables :
          /\ node.tag = "virtual-method" /\ ~node.throws
          /\ job = CreateVFuncSymbolJob(node)
     \/ \E w \in FlagValues, c \in FlagValues, o \in FlagValues :
          job = CreatePropertySymbolJob(w, c, o)
     \/ \E d \in AnnotationDicts(MaxAnnotations) :
          job = MakeAnnotationsJob(d)

\* __update_symbol calls __update_function (line 1493)
UpdateFunctionCall ==
  /\ job.op = "update_function" /\ ~job.done
  /\ LET r == UpdateFunction(job.func, job.node) IN
       job' = [job EXCEPT !.done = TRUE, !.raised = r.raised, !.func = r.func]
  /\ UNCHANGED hostVars

\* __update_struct calls __create_vfunc_symbol (line 1464)
CreateVFuncSymbolCall ==
  /\ job.op = "create_vfunc_symbol" /\ ~job.done
  /\ job' = [job EXCEPT !.done = TRUE, !.symbol = CreateVFuncSymbol(job.node)]
  /\ UNCHANGED hostVars

\* __update_struct calls __create_property_symbol (line 1441)
CreatePropertySymbolCall ==
  /\ job.op = "create_property_symbol" /\ ~job.done
  /\ job' = [job EXCEPT
       !.done = TRUE,
       !.flags = PropertyFlags(job.writable, job.construct,
                               job.construct_only)]
  /\ UNCHANGED hostVars

\* __add_annotations calls __make_annotations (line 1036)
MakeAnnotationsCall ==
  /\ job.op = "make_annotations" /\ ~job.done
  /\ LET r == MakeAnnotations(job.comment_annotations) IN
       job' = [job EXCEPT !.done = TRUE, !.raised = r.raised,
                          !.annotations = r.annotations]
  /\ UNCHANGED hostVars

SymbolNext ==
  \/ MakeAnnotationsCall
  \/ UpdateFunctionCall
  \/ CreateVFuncSymbolCall
  \/ CreatePropertySymbolCall

SymbolSpec == SymbolInit /\ [][SymbolNext]_vars

\* ================================================================ claims

\* The files __cache_nodes has run its five loops over.
Indexed(file) ==
  /\ In(file, parse_log)
  /\ \A i \in DOMAIN stack : stack[i].file = file => stack[i].indexed

CachingDone == pc \notin {"new", "caching"}

GtkButtonName == Dotted(Str("Gtk"), Str("Button"))
GObjectName == Dotted(Str("GObject"), Str("Object"))

\* ---- C1

\* The parent of a class, named as its `parent` attribute names it: as
\* written when qualified, in the namespace of the class itself when not.
NamedParent(n) ==
  IF HasDot(ParentAttr(n)) THEN ParentAttr(n)
  ELSE Doc[Doc[n].up].name \o <<".">> \o ParentAttr(n)

RECURSIVE AncestorChain(_)
\* The C types of the ancestors of a class, the root-most first.
AncestorChain(n) ==
  IF ParentAttr(n) = NoAttr THEN <<>>
  ELSE LET p == class_nodes[NamedParent(n)]
       IN AncestorChain(p) \o <<Doc[p].ctype>>

\* C1: the hierarchy stored for a class is the chain of its ancestors along
\* the `parent` attributes, the root-most ancestor first and the direct
\* parent last, and is empty for a class without a parent.
C1_Hierarchy ==
  \A g \in DOMAIN gir_hierarchies :
    /\ g \in DOMAIN class_nodes
    /\ gir_hierarchies[g] = AncestorChain(class_nodes[g])
    /\ ParentAttr(class_nodes[g]) = NoAttr => gir_hierarchies[g] = <<>>

C1_Witness ==
  /\ pc = "constructed"
  /\ gir.par.c4 = Str("Object")
  /\ GtkButtonName \in DOMAIN gir_hierarchies
  /\ gir_hierarchies[GtkButtonName] =
       <<Str("GObject"), Str("GInitiallyUnowned"), Str("GtkObject"),
         Str("GtkWidget")>>
  /\ gir_hierarchies[GObjectName] = <<>>

\* ---- C2

RECURSIVE NamedAncestors(_)
\* The named elements from the outermost down to the node.
NamedAncestors(n) ==
  IF n = 0 THEN <<>>
  ELSE NamedAncestors(Doc[n].up)
       \o (IF Doc[n].name = NoAttr THEN <<>> ELSE <<n>>)

RECURSIVE DottedPath(_)
\* The names of a list of nodes, joined by dots.
DottedPath(ns) ==
  IF ns = <<>> THEN <<>>
  ELSE IF Len(ns) = 1 THEN Doc[ns[1]].name
  ELSE Doc[ns[1]].name \o <<".">> \o DottedPath(Tail(ns))

\* A dotted path with 'prototype.' before its last component.
WithPrototype(path) ==
  SubSeq(path, 1, Len(path) - 1) \o <<"prototype", ".", path[Len(path)]>>

\* C2: a name registered for a node with a c:identifier has itself as C
\* name, the dotted path of the node as Python name and the path with
\* 'prototype.' before its last component as JavaScript name; for a node
\* with a c:type only both names are the dotted path; a node with neither
\* has no entry; and a call for a node that has one of the two registers it.
C2_Translations ==
  /\ DOMAIN c_names = DOMAIN python_names
  /\ DOMAIN c_names = DOMAIN javascript_names
  /\ \A u \in DOMAIN c_names :
       /\ u \in DOMAIN node_cache
       /\ LET n == node_cache[u]
              path == DottedPath(NamedAncestors(n))
          IN /\ c_names[u] = u
             /\ python_names[u] = path
             /\ Doc[n].cid # NoAttr => javascript_names[u] = WithPrototype(path)
             /\ Doc[n].cid = NoAttr =>
                  /\ Doc[n].ctype # NoAttr
                  /\ javascript_names[u] = path
  /\ ( /\ last.op = "symbol"
       /\ last.language # Str("c")
       /\ ~IsQualifiedSymbol(last.item.kind)
       /\ last.item.name \in DOMAIN node_cache
       /\ last.item.name \notin FundamentalsOf(last.language) )
     => LET n == node_cache[last.item.name]
        IN (last.item.name \in DOMAIN c_names)
             <=> (Doc[n].cid # NoAttr \/ Doc[n].ctype # NoAttr)

C2_Witness ==
  /\ WidgetShow \in DOMAIN javascript_names
  /\ javascript_names[WidgetShow] =
       <<"Gtk", ".", "Widget", ".", "prototype", ".", "show">>
  /\ python_names[WidgetShow] = <<"Gtk", ".", "Widget", ".", "show">>
  /\ Str("GtkWidget") \in DOMAIN javascript_names
  /\ javascript_names[Str("GtkWidget")] = <<"Gtk", ".", "Widget">>
  /\ last.op = "symbol" /\ last.item.name = WidgetShowSignal
  /\ last.language = Str("javascript")
  /\ WidgetShowSignal \notin DOMAIN c_names

\* ---- C3

\* The node cache holds node n under key k.
Cached(k, n) == k \in DOMAIN node_cache /\ node_cache[k] = n

\* C3: once a file is indexed, each of its elements with a c:identifier is
\* in the node cache under the identifier, each class under its C type and
\* under 'CType::CType', each property under 'ParentCType:name', each
\* signal under 'ParentCType::name' and each virtual method under
\* 'ParentCType:::name', and the node found is that element.
C3_NodeCache ==
  \A n \in NodeIds :
    (Doc[n].up # 0 /\ Indexed(Doc[n].gir)) =>
      LET t == Doc[Doc[n].up].ctype IN
      /\ Doc[n].cid # NoAttr => Cached(Doc[n].cid, n)
      /\ (Doc[n].tag = "class" /\ Doc[n].ctype # NoAttr) =>
           /\ Cached(Doc[n].ctype, n)
           /\ Cached(Doc[n].ctype \o <<":", ":">> \o Doc[n].ctype, n)
      /\ Doc[n].tag = "property" =>
           Cached(t \o <<":">> \o Doc[n].name, n)
      /\ Doc[n].tag = "glib:signal" =>
           Cached(t \o <<":", ":">> \o Doc[n].name, n)
      /\ Doc[n].tag = "virtual-method" =>
           Cached(t \o <<":", ":", ":">> \o Doc[n].name, n)

C3_Witness ==
  /\ pc = "hierarchies"
  /\ Indexed("Gtk") /\ Indexed("GObject")
  /\ Cached(<<"GtkButton", ":", "clicked">>, 11)
  /\ Cached(<<"GtkButton", ":", ":", "clicked">>, 12)
  /\ Cached(<<"GtkButton", ":", ":", ":", "clicked">>, 13)
  /\ Cached(<<"GObject", ":", ":", "GObject">>, 20)

\* ---- C4

\* C4: an include that cannot be located is skipped: when __cache_nodes is
\* through, every include of a parsed file that can be located has been
\* parsed, those after an include that cannot be located too, every
\* include that cannot be is among the reported ones, and the elements of
\* every parsed file are in the node cache.
C4_MissingIncludeSkipped ==
  CachingDone =>
    /\ \A f \in Range(parse_log) : \A i \in DOMAIN Includes(f) :
         IF Includes(f)[i] \in GirFiles
         THEN In(Includes(f)[i], parse_log)
         ELSE In(Includes(f)[i], skipped)
    /\ \A n \in NodeIds :
         (In(Doc[n].gir, parse_log) /\ Doc[n].cid # NoAttr)
           => Doc[n].cid \in DOMAIN node_cache
    /\ \A n \in NodeIds :
         (In(Doc[n].gir, parse_log) /\ Doc[n].tag = "class")
           => Doc[n].ctype \in DOMAIN node_cache

C4_Witness ==
  /\ CachingDone
  /\ gir.inc.Gtk = <<"Atk", "GObject">>
  /\ skipped = <<"Atk">>
  /\ parse_log = <<"Gtk", "GObject">>
  /\ Str("GObject") \in DOMAIN node_cache
  /\ Str("gtk_widget_show") \in DOMAIN node_cache

\* ---- C5

\* C5: an include GIRParser cannot locate is skipped, and the construction
\* of the GIRParser completes: it never ends in the exception of
\* etree.parse(None).
C5_ParserSkipsMissingInclude ==
  ~(pc = "raised" /\ In(None, parser.parsed_files))

\* ---- C6

\* C6: during the construction of GIExtension no GIR file is parsed twice.
C6_ParsedAtMostOnce ==
  \A i, j \in DOMAIN parse_log : parse_log[i] = parse_log[j] => i = j

\* ---- C7

RECURSIVE ChainEnds(_, _)
\* Following `parent` attributes from a class ends at a class without one
\* within `fuel` steps, every parent named being an indexed class.
ChainEnds(n, fuel) ==
  \/ ParentAttr(n) = NoAttr
  \/ /\ fuel > 0
     /\ NamedParent(n) \in DOMAIN class_nodes
     /\ ChainEnds(class_nodes[NamedParent(n)], fuel - 1)

\* The parent attributes of the indexed classes are acyclic and name
\* indexed classes only.
ParentsWellFounded ==
  \A g \in DOMAIN class_nodes :
    ChainEnds(class_nodes[g], Cardinality(DOMAIN class_nodes))

RECURSIVE NumAncestors(_)
NumAncestors(n) ==
  IF ParentAttr(n) = NoAttr THEN 0
  ELSE 1 + NumAncestors(class_nodes[NamedParent(n)])

\* C7: with acyclic parent attributes that name indexed classes only, a
\* walk of __create_hierarchy is never stuck and never raises, has made as
\* many iterations as it has passed ancestors, and ends after as many
\* iterations as the class has ancestors.
C7_WalkTerminates ==
  (pc = "hierarchies" /\ ParentsWellFounded /\ walk.gi_name # None) =>
    /\ walk.iters + NumAncestors(walk.klass) = NumAncestors(walk.klaass)
    /\ walk.on => (ENABLED CreateHierarchyIter \/ ENABLED CreateHierarchyReturn)
    /\ walk.on => ~ENABLED CreateHierarchyKeyError
    /\ ~walk.on =>
         /\ walk.iters = NumAncestors(walk.klaass)
         /\ Len(gir_hierarchies[walk.gi_name]) = walk.iters

C7_Witness ==
  /\ pc = "hierarchies" /\ ParentsWellFounded
  /\ ~walk.on /\ walk.gi_name = GtkButtonName
  /\ walk.iters = 4

\* ---- C8

IsC(l) == l \in {"c", "C"}

\* The number of elements of a sequence that satisfy Test.
Count(seq, Test(_)) == Cardinality({i \in DOMAIN seq : Test(seq[i])})

FormatPageReturned == pc = "ready" /\ fundamentals # None

\* C8: when format_page has returned, every rendering for another language
\* was preceded by one for C if C is configured, in whatever case; the
\* other languages were rendered in their configured order; and each
\* language was rendered as often as it is configured.
C8_CFirst ==
  FormatPageReturned =>
    /\ (\E i \in DOMAIN config_languages : IsC(config_languages[i])) =>
         /\ rendered[1] = "c"
         /\ \A i \in DOMAIN rendered :
              rendered[i] # "c" => \E j \in 1..(i - 1) : rendered[j] = "c"
    /\ SelectSeq(rendered, LAMBDA l : l # "c")
         = SelectSeq(config_languages, LAMBDA l : ~IsC(l))
    /\ Count(rendered, LAMBDA l : l = "c") = Count(config_languages, IsC)
    /\ Len(rendered) = Len(config_languages)

C8_Witness ==
  /\ FormatPageReturned
  /\ config_languages = <<"python", "C", "javascript">>
  /\ rendered = <<"c", "python", "javascript">>

\* ---- C9

\* C9: __formatting_symbol accepts every symbol when the language is 'c';
\* in another language it accepts every QualifiedSymbol, and another
\* symbol exactly when its unique name is a fundamental of the formatter
\* or its node is in the node cache and not marked introspectable="0".
C9_FormattingSymbol ==
  last.op = "symbol" =>
    LET name == last.item.name IN
    IF last.language = Str("c") THEN last.accepted
    ELSE IF last.item.kind \in
              {"QualifiedSymbol", "ParameterSymbol", "ReturnItemSymbol"}
    THEN last.accepted
    ELSE last.accepted <=>
           \/ name \in FundamentalsOf(last.language)
           \/ /\ name \in DOMAIN node_cache
              /\ Doc[node_cache[name]].intro # Str("0")

C9_Witness ==
  /\ last.op = "symbol"
  /\ last.language = Str("python")
  /\ last.item.name = AbiCheck
  /\ ~last.accepted

\* ---- C10

\* The table of a language.
TableOf(l) ==
  CASE l = Str("c") -> c_names
    [] l = Str("python") -> python_names
    [] l = Str("javascript") -> javascript_names
    [] OTHER -> EmptyDict

\* C10: what __rename_page_link returns, and what __translate_link_title
\* returns for a link it does not mark, is the entry of the table of the
\* current language as the table is at the time of the call, entries made
\* after setup_language included; it is None in a language without table.
C10_TableOfLanguage ==
  /\ last.op = "page_link" =>
       last.value = Get(TableOf(last.language), last.item.name)
  /\ ( /\ last.op = "link_title"
       /\ \/ last.language = Str("c")
          \/ last.item.name \in FundamentalsOf(last.language)
          \/ /\ last.item.name \in DOMAIN node_cache
             /\ Doc[node_cache[last.item.name]].intro # Str("0") )
     => last.value = Get(TableOf(last.language), last.item.name)
  /\ (pc = "formatting" /\ fmt.item > 0) =>
       Translated(Names) = TableOf(language)
  /\ (last.op = "setup_language" /\ pc # "formatting") =>
       /\ language = last.language
       /\ Translated(Names) = TableOf(last.language)

\* The third item of the page, a page link, is answered in Python with the
\* entry the second item made, the first answer of this call having been
\* made after setup_language('python') with no entry in any table.
C10_Witness ==
  /\ pc = "formatting" /\ fmt.item = 4
  /\ last.op = "page_link" /\ last.item.name = WidgetShow
  /\ language = Str("python")
  /\ DOMAIN python_names = {WidgetShow}
  /\ last.value = <<"Gtk", ".", "Widget", ".", "show">>

\* ---- C11

\* C11: when Skip was raised in do_quick_start, by the choice prompt or
\* because the permission to modify the sources was not granted,
\* config['gi_index'] is not set, no file was patched or committed, and
\* do_quick_start has returned the result of the base quick start; nothing
\* is patched before the permission is granted.
C11_Skip ==
  /\ wizard.skip =>
       /\ wizard.pc = "done"
       /\ wizard.gi_index = None
       /\ wizard.patched = <<>>
       /\ wizard.added = <<>> /\ ~wizard.committed
       /\ wizard.returned = wizard.res
  /\ wizard.pc \in {"group_prompt", "propose_choice", "ask_confirmation"} =>
       wizard.patched = <<>>

\* Permission was not granted for two comments, after the sections file
\* was translated.
C11_Witness ==
  /\ wizard.skip
  /\ wizard.tmp_sections
  /\ Len(wizard.comments) = 2
  /\ wizard.returned = Str("True")

\* ---- C12

C12_Step ==
  ( /\ pc = "resolving" /\ pc' = "resolving"
    /\ resolve.item <= Len(SymbolItems)
    /\ \/ resolve.extension_name # "gi-extension"
       \/ Page[SymbolItems[resolve.item]].name \notin DOMAIN node_cache )
  => /\ last'.op = "resolving_symbol"
     /\ last'.item = Page[SymbolItems[resolve.item]]
     /\ last'.value = <<>>
     /\ symbols' = symbols
     /\ nameVars' = nameVars

\* C12: a call of __resolving_symbol for a symbol whose unique name is not
\* in the node cache, or for a symbol of a page of another extension,
\* returns the empty list and changes neither a symbol nor a table of names.
C12_ResolvingNoOp == [][C12_Step]_vars

\* Resolving gtk_private, which no GIR file has, after gtk_init_abi_check
\* was updated and registered.
C12_Witness ==
  /\ last.op = "resolving_symbol"
  /\ resolve.extension_name = "gi-extension"
  /\ last.item.name = Str("gtk_private")
  /\ last.value = <<>>
  /\ symbols[last.index] = NoSymbolState
  /\ AbiCheck \in DOMAIN c_names
  /\ Str("gtk_private") \notin DOMAIN c_names

\* ---- C13

\* C13: no handler is ever connected twice, and when setup_language has
\* returned each of the three handlers is connected once if its argument
\* was not None and is not connected if it was None.
C13_ConnectedOnce ==
  /\ \A h \in Handlers : connected[h] <= 1
  /\ (last.op = "setup_language" /\ pc # "formatting") =>
       \A h \in Handlers :
         connected[h] = IF last.language # None THEN 1 ELSE 0

\* setup_language('vala') after a format_page that rendered C and JavaScript
C13_Witness ==
  /\ last.op = "setup_language" /\ pc = "ready"
  /\ last.language = Str("vala")
  /\ rendered = <<"c", "javascript">>
  /\ \A h \in Handlers : connected[h] = 1

\* ---- C14

\* C14: when format_page has returned, the language is None, the three
\* handlers are not connected, the current table is empty and the
\* fundamentals are those of 'c', and this stays so until the host calls
\* the extension again.
C14_FormatPageEnd ==
  (last.op = "format_page" /\ pc # "formatting") =>
    /\ language = None
    /\ \A h \in Handlers : connected[h] = 0
    /\ translated_names = "own"
    /\ Translated(Names) = EmptyDict
    /\ fundamentals = Str("c")

C14_Witness ==
  /\ last.op = "format_page" /\ pc = "ready"
  /\ config_languages = <<"python", "C", "javascript">>
  /\ rendered = <<"c", "python", "javascript">>
  /\ WidgetShow \in DOMAIN javascript_names
  /\ \A h \in Handlers : connected[h] = 0

\* ---- C15

\* C15: when __formatting_symbol has run for a ParameterSymbol or a
\* ReturnItemSymbol, extension_contents of the symbol has the key
\* 'Annotations' exactly if the language is 'c'.
C15_Annotations ==
  ( /\ last.op = "symbol"
    /\ last.item.kind \in {"ParameterSymbol", "ReturnItemSymbol"} )
  => (symbols[last.index].annotations <=> last.language = Str("c"))

\* The parameter is formatted for Python after it was formatted for C.
C15_Witness ==
  /\ last.op = "symbol"
  /\ last.item.kind = "ParameterSymbol"
  /\ last.language = Str("python")
  /\ rendered = <<"c", "python">>
  /\ ~symbols[last.index].annotations

\* ---- C16

\* __is_introspectable for a name while the fundamentals of language l are
\* set: a fundamental, or a cached node not marked introspectable="0".
Introspectable(l, name) ==
  \/ name \in FundamentalsOf(l)
  \/ /\ name \in DOMAIN node_cache
     /\ Doc[node_cache[name]].intro # Str("0")

\* C16: __translate_link_ref returns '../c/' followed by the ref exactly
\* when the language is not 'c', the link has a ref and its id is not
\* introspectable, and None in every other case; the link keeps its ref.
C16_TranslateLinkRef ==
  last.op = "link_ref" =>
    /\ last.value =
         IF /\ last.language # Str("c")
            /\ last.item.ref # None
            /\ ~Introspectable(last.language, last.item.name)
         THEN <<"../c/">> \o last.item.ref
         ELSE None
    /\ \E i \in DOMAIN Page : Page[i] = last.item

C16_Witness ==
  /\ last.op = "link_ref"
  /\ last.language = Str("python")
  /\ last.item.name = Str("gtk_private")
  /\ last.value = <<"../c/", "gtk.html#gtk_private">>

\* ---- C17

\* The name a cached node has in a language with a table.
TranslatedName(l, n) ==
  LET path == DottedPath(NamedAncestors(n)) IN
  CASE l = Str("python") -> path
    [] l = Str("javascript") ->
         IF Doc[n].cid # NoAttr THEN WithPrototype(path) ELSE path
    [] OTHER -> None

C17_Title ==
  (last.op = "link_title" /\ last.language # Str("c")) =>
    LET name == last.item.name IN
    IF ~Introspectable(last.language, name)
    THEN last.value = last.item.title \o <<" (not introspectable)">>
    ELSE ( /\ name \notin FundamentalsOf(last.language)
           /\ \/ Doc[node_cache[name]].cid # NoAttr
              \/ Doc[node_cache[name]].ctype # NoAttr )
         => last.value = TranslatedName(last.language, node_cache[name])

C17_Kept ==
  /\ \A u \in DOMAIN c_names :
       u \in DOMAIN c_names' /\ c_names'[u] = c_names[u]
  /\ \A u \in DOMAIN python_names :
       u \in DOMAIN python_names' /\ python_names'[u] = python_names[u]
  /\ \A u \in DOMAIN javascript_names :
       /\ u \in DOMAIN javascript_names'
       /\ javascript_names'[u] = javascript_names[u]

HierarchiesDone == pc \in {"constructed", "parsing", "ready"}

\* The indexed classes whose `parent` attribute names class P.
DirectChildren(P) ==
  {g \in DOMAIN class_nodes :
     /\ ParentAttr(class_nodes[g]) # NoAttr
     /\ NamedParent(class_nodes[g]) = P}

\* C18: after __create_hierarchies the children map of each class holds
\* one entry for each indexed class whose direct parent it is, under the C
\* type of the child, and no other entry.
C18_ChildrenMap ==
  HierarchiesDone =>
    /\ DOMAIN gir_children_map \subseteq DOMAIN class_nodes
    /\ \A P \in DOMAIN class_nodes :
         LET children == IF P \in DOMAIN gir_children_map
                         THEN gir_children_map[P] ELSE EmptyDict
         IN /\ DOMAIN children =
                 {Doc[class_nodes[g]].ctype : g \in DirectChildren(P)}
            /\ Cardinality(DOMAIN children) = Cardinality(DirectChildren(P))
            /\ \A k \in DOMAIN children : children[k] = k

C18_Witness ==
  /\ HierarchiesDone
  /\ GObjectName \in DOMAIN gir_children_map
  /\ DOMAIN gir_children_map[GObjectName] =
       {Str("GInitiallyUnowned"), Str("GtkWidget"), Str("GdkWindow")}
  /\ Dotted(Str("Gtk"), Str("Widget")) \in DOMAIN gir_children_map
  /\ DOMAIN gir_children_map[Dotted(Str("Gtk"), Str("Widget"))] =
       {Str("GtkButton")}

\* ---- C19

\* Every include of every GIR file is found.
AllIncludesFound ==
  \A f \in GirFiles : \A i \in DOMAIN Includes(f) : Includes(f)[i] \in GirFiles

\* C19: when every included file is found, GIRParser.__parse_gir_file,
\* while it runs and when it has returned to setup(), has parsed no file
\* twice, nests no deeper than there are files, always has
\* a next step until it has returned, never raises, and leaves namespace
\* and identifier prefix those of the root file.
C19_ParserTerminates ==
  (/\ pc \in {"parsing", "ready", "raised"}
   /\ parser.parsed_files # <<>>
   /\ AllIncludesFound) =>
    /\ \A i, j \in DOMAIN parser.parsed_files :
         parser.parsed_files[i] = parser.parsed_files[j] => i = j
    /\ Len(parser.stack) <= Cardinality(GirFiles)
    /\ parser.namespace = Doc[NamespaceOf(RootGir)].name
    /\ parser.identifier_prefix = IdentifierPrefixes(RootGir)
    /\ pc # "raised"
    /\ pc = "parsing" =>
         \/ ENABLED ParserIncludeParsed
         \/ ENABLED ParserIncludeRecurse
         \/ ENABLED ParserNamespace
         \/ ENABLED ParserReturn
         \/ ENABLED ParserCreateHierarchies

C19_Witness ==
  /\ pc = "ready"
  /\ AllIncludesFound
  /\ gir.inc.Gtk = <<"Gdk", "GObject">>
  /\ gir.inc.Gdk = <<"Gtk">>
  /\ gir.inc.GObject = <<"Gtk">>
  /\ parser.parsed_files = <<Str("Gtk"), Str("Gdk"), Str("GObject")>>

\* ---- C20

\* C20: the construction of GIExtension never ends in the KeyError of
\* line 861 for a class whose parent is not among the indexed class nodes.
C20_ConstructionCompletes ==
  ~(pc = "raised" /\ walk.on)

\* ---- C21

\* The gi_name of a GIR parameter: the name of its type, with the
\* namespace before it when it is a type of the namespace.
ExpectedGiName(type) ==
  IF type = Str("Widget") THEN <<"Gtk", ".", "Widget">> ELSE type

\* The direction of a GIR parameter, 'in' when it has no such attribute.
ExpectedDirection(direction) ==
  IF direction \in {Str("out"), Str("inout")} THEN direction ELSE Str("in")

\* The C parameters of a function less the error parameter of one that
\* throws.
CCount(count, throws) == IF throws /\ count > 0 THEN count - 1 ELSE count

\* C21: after __update_function the i-th C parameter has the gi_name and
\* the direction of the i-th GIR parameter, the instance parameter counted
\* as the first; for a node with `throws` the last C parameter is left as
\* it was and the function is marked as throwing, and is not marked
\* otherwise; and IndexError is not raised when the C parameters, less the
\* error parameter, are no more than the GIR parameters.
C21_UpdateFunction ==
  (job.op = "update_function" /\ job.done) =>
    LET node == job.node
        func == job.func
        gi == node.instance \o node.parameters
        m == CCount(job.count, node.throws)
    IN /\ m <= Len(gi) => ~job.raised
       /\ ~job.raised =>
            \A i \in 1..m :
              /\ func.parameters[i].gi_name = ExpectedGiName(gi[i].type)
              /\ func.parameters[i].direction
                   = ExpectedDirection(gi[i].direction)
       /\ func.throws <=> node.throws
       /\ func.is_method <=> node.tag = "method"
       /\ (node.throws /\ job.count > 0) =>
            /\ func.parameters[job.count].gi_name = None
            /\ func.parameters[job.count].direction = None

\* A method that throws, with its instance, two parameters and the error
\* parameter in C.
C21_Witness ==
  /\ job.op = "update_function" /\ job.done /\ ~job.raised
  /\ job.node.throws /\ job.count = 4
  /\ job.node.instance # <<>> /\ Len(job.node.parameters) = 2
  /\ job.func.parameters[1].gi_name = <<"Gtk", ".", "Widget">>
  /\ job.func.parameters[3].direction = Str("out")
  /\ job.func.parameters[4].direction = None

\* ---- C22

\* The names of the GIR parameters whose direction is not 'in', in order.
RECURSIVE OutNames(_)
OutNames(gi_parameters) ==
  IF gi_parameters = <<>> THEN <<>>
  ELSE (IF Head(gi_parameters).direction \in {Str("out"), Str("inout")}
        THEN <<Head(gi_parameters).name>> ELSE <<>>)
       \o OutNames(Tail(gi_parameters))

\* The return value of a node: the return item, None for 'none', then one
\* item for each parameter that is not an 'in' parameter.
IsRetvalOf(retval, node) ==
  /\ Len(retval) = 1 + Len(OutNames(node.parameters))
  /\ retval[1] = None <=> node.return_type = Str("none")
  /\ \A k \in DOMAIN OutNames(node.parameters) :
       retval[k + 1] # None /\ retval[k + 1].name = OutNames(node.parameters)[k]

\* C22: __create_parameters_and_retval returns as parameters the instance
\* parameter, when there is one, and then the GIR parameters in document
\* order, each without direction attribute as an 'in' parameter, and none
\* for a node without <parameters>; as return value the return item, None
\* for the type 'none', and then one item for each parameter but the
\* instance parameter whose direction is not 'in', in their order.
C22_ParametersAndRetval ==
  /\ (job.op = "create_vfunc_symbol" /\ job.done) =>
       LET node == job.node
           gi == node.instance \o node.parameters
           parameters == job.symbol.parameters
       IN /\ Len(parameters) = Len(gi)
          /\ \A i \in DOMAIN gi :
               /\ parameters[i].argname = gi[i].name
               /\ parameters[i].direction = ExpectedDirection(gi[i].direction)
          /\ ~node.has_parameters => parameters = <<>>
          /\ IsRetvalOf(job.symbol.return_value, node)
  /\ (job.op = "update_function" /\ job.done) =>
       IsRetvalOf(job.func.return_value, job.node)

\* A virtual method whose instance parameter is an 'out' parameter, with a
\* parameter without direction and an 'out' parameter, returning nothing.
C22_Witness ==
  /\ job.op = "create_vfunc_symbol" /\ job.done
  /\ job.node.instance # <<>> /\ job.node.instance[1].direction = Str("out")
  /\ Len(job.node.parameters) = 2
  /\ job.node.parameters[1].direction = NoAttr
  /\ Len(job.symbol.parameters) = 3
  /\ job.symbol.parameters[2].direction = Str("in")
  /\ job.symbol.return_value =
       <<None, [kind |-> "ReturnItemSymbol", name |-> Str("b")]>>

\* ---- C23

\* What is stored of a list of parameters: those of direction 'in' or
\* 'inout' but the first of a method, in the order of the list.
IsSorted(stored, parameters, is_method) ==
  LET K == {i \in DOMAIN parameters :
              /\ parameters[i].direction \in {Str("in"), Str("inout")}
              /\ ~(is_method /\ i = 1)}
  IN /\ Len(stored) = Cardinality(K)
     /\ \A k \in DOMAIN stored :
          stored[k] = parameters[CHOOSE i \in K :
                                   Cardinality({j \in K : j <= i}) = k]

\* C23: __sort_parameters stores as 'parameters' of 'gi-extension' the
\* parameters of direction 'in' or 'inout' in their order, without the
\* 'out' parameters and without the first parameter of a method; the
\* parameter list of the symbol keeps its parameters.
C23_SortParameters ==
  /\ (job.op = "update_function" /\ job.done /\ ~job.raised) =>
       /\ IsSorted(job.func.gi_parameters,
                   SubSeq(job.func.parameters, 1,
                          CCount(job.count, job.node.throws)),
                   job.func.is_method)
       /\ Len(job.func.parameters) = job.count
       /\ \A i \in 1..job.count :
            job.func.parameters[i].argname = Str(ArgNames[i])
  /\ (job.op = "create_vfunc_symbol" /\ job.done) =>
       /\ IsSorted(job.symbol.gi_parameters, job.symbol.parameters, FALSE)
       /\ Len(job.symbol.parameters)
            = Len(job.node.instance) + Len(job.node.parameters)

\* A method with an 'inout' and an 'out' parameter: the 'inout' parameter
\* alone is stored; and a function whose first parameter is stored.
C23_Witness ==
  /\ job.op = "update_function" /\ job.done /\ ~job.raised
  /\ job.func.is_method /\ job.count = 3
  /\ job.func.parameters[1].direction = Str("in")
  /\ job.func.parameters[2].direction = Str("inout")
  /\ job.func.parameters[3].direction = Str("out")
  /\ Len(job.func.gi_parameters) = 1
  /\ job.func.gi_parameters[1].argname = Str("b")

\* ---- C24

\* C24: the flags of a property are Read, always and first, Write exactly
\* for writable '1', Construct Only exactly for construct-only '1', and
\* Construct exactly for construct '1' without construct-only '1'; no flag
\* is there twice, and Construct and Construct Only are never both there.
C24_PropertyFlags ==
  (job.op = "create_property_symbol" /\ job.done) =>
    LET flags == job.flags
        Has(f) == \E i \in DOMAIN flags : flags[i] = f
    IN /\ flags # <<>> /\ flags[1] = "ReadableFlag"
       /\ Has("WritableFlag") <=> job.writable = Str("1")
       /\ Has("ConstructOnlyFlag") <=> job.construct_only = Str("1")
       /\ Has("ConstructFlag") <=>
            (job.construct = Str("1") /\ job.construct_only # Str("1"))
       /\ ~(Has("ConstructFlag") /\ Has("ConstructOnlyFlag"))
       /\ \A i, j \in DOMAIN flags : flags[i] = flags[j] => i = j

\* A writable property with construct and construct-only both '1'.
C24_Witness ==
  /\ job.op = "create_property_symbol" /\ job.done
  /\ job.writable = Str("1")
  /\ job.construct = Str("1") /\ job.construct_only = Str("1")
  /\ job.flags = <<"ReadableFlag", "WritableFlag", "ConstructOnlyFlag">>

\* ---- C25

\* One comment is patched in this step.
C25_Step ==
  (wizard.pc = "patch" /\ wizard'.i = wizard.i + 1) =>
    LET c == wizard.comments[wizard.i]
        removed == c.endlineno - c.lineno
    IN /\ DOMAIN wizard'.comments = DOMAIN wizard.comments
       /\ \A k \in DOMAIN wizard.comments :
            LET o == wizard.comments[k]
                n == wizard'.comments[k]
            IN /\ n.endlineno - n.lineno = o.endlineno - o.lineno
               /\ IF /\ c.raw_comment = ""
                     /\ k # wizard.i
                     /\ o.filename = c.filename
                     /\ o.lineno > c.endlineno
                  THEN /\ n.lineno = o.lineno - removed
                       /\ n.endlineno = o.endlineno - removed
                       /\ n.filename = o.filename
                       /\ n.raw_comment = o.raw_comment
                  ELSE n = o

\* Every comment starts at line 1 or later.
C25_Lines ==
  \A k \in DOMAIN wizard.comments : wizard.comments[k].lineno >= 1

\* Two comments do not overlap.
Apart(a, b) ==
  a.filename = b.filename =>
    (a.endlineno < b.lineno \/ b.endlineno < a.lineno)

\* The comment was patched with an empty text: it is no longer in its file.
Removed(k) == k < wizard.i /\ wizard.comments[k].raw_comment = ""

C26_MakeAnnotations ==
  (job.op = "make_annotations" /\ job.done) =>
    /\ ~job.raised
    /\ \A i \in DOMAIN job.annotations :
         /\ job.annotations[i].made = "Annotation"
         /\ job.annotations[i].nick \notin {"skip", "attributes"}
    /\ Len(job.annotations) <= Len(job.comment_annotations)

\* ---- C27

\* C27: the names GIRParser registers for a C identifier or C type are the
\* names __add_translations registers for it: whatever is in the Python or
\* JavaScript names of both has the same name in both.
C27_NameIndexesAgree ==
  /\ \A u \in DOMAIN python_names \cap DOMAIN parser.python_names :
       python_names[u] = parser.python_names[u]
  /\ \A u \in DOMAIN javascript_names \cap DOMAIN parser.javascript_names :
       javascript_names[u] = parser.javascript_names[u]

\* ---- C28

\* The signal, property and virtual-method elements of a class, in the
\* order __update_struct goes through them.
MemberNodes(node) ==
  ChildrenOf(node, "glib:signal") \o ChildrenOf(node, "property")
    \o ChildrenOf(node, "virtual-method")

\* The symbols __update_struct returned, less the ClassSymbol.
MemberSymbols(res) ==
  SelectSeq(res, LAMBDA symbol : symbol.kind # "ClassSymbol")

\* C28: after __update_struct ran for a class, every signal, property and
\* virtual-method symbol it created has a unique name that is a key of the
\* node cache, and the node cached under it is the GIR element the symbol
\* was created from.
C28_MemberSymbolsCached ==
  (/\ last.op = "resolving_symbol"
   /\ last.item.kind = "StructSymbol"
   /\ last.value # <<>>) =>
    LET node == node_cache[last.item.name]
        members == MemberSymbols(last.value)
    IN /\ Len(members) = Len(MemberNodes(node))
       /\ \A i \in DOMAIN members :
            Cached(members[i].unique_name, MemberNodes(node)[i])

====
